---------------------------- MODULE Spec2Model ----------------------------
(***************************************************************************)
(* Pairing generators of the KGC league repository.                        *)
(*                                                                         *)
(* generate_pairings.py (v1), generate_pairings_v2.py (v2) and             *)
(* generate_pairings_v3.py (v3) are modelled as batch pipelines: one run   *)
(* reads its input tables, goes through the script's steps in order and    *)
(* stops.  The input tables (the analysis data frame, the course           *)
(* handicaps, the commitment list, the match play records) and the         *)
(* pairing constraints are chosen in the initial state from bounded sets;  *)
(* each step of a script is one action.                                    *)
(*                                                                         *)
(* Scores and handicaps are integers (the scripts read one-decimal         *)
(* numbers; the model counts in that unit).  The pairing score of v2 is    *)
(* counted in thousandths and its player strength in hundredths, so that   *)
(* the weights of the script stay whole numbers; the arithmetic is exact   *)
(* where the scripts use binary floats.  Only analysis rows that carry a   *)
(* Combined Value Score are given to v2 and v3.  Player names are unique   *)
(* in every input table, as in the CSV files the scripts read.             *)
(***************************************************************************)
EXTENDS Integers, Sequences, FiniteSets, TLC

VARIABLES
    script,              \* which script this run executes: "v1", "v2", "v3", "v4" or "ui"
    pc,                  \* the position of the run in the script
    outcome,             \* "running", "completed", or the exception that ended the run
    \* ---- generate_pairings.py: inputs
    df,                  \* rows of outputs/analysis.csv
    ch_lookup,           \* name -> latest course handicap ({} when no scores file)
    REQUIRED_PAIRINGS,   \* sequence of <<anchor, gunner>>
    EITHER_OR_PAIRINGS,  \* sequence of <<anchor_options, gunner>>
    EXCLUSIONS,          \* name -> set of names
    MIN_CH_DIFF,
    \* ---- generate_pairings.py: locals of generate_pairings
    top_anchors,
    top_gunners,
    fixed_pairs,
    used_anchors,
    used_gunners,
    remaining_anchors,
    remaining_gunners,
    perms_enumerated,    \* how many permutations the search loop iterated over
    search_found,        \* best_assignment is not None after the permutation loop
    used_fallback,       \* the greedy fallback ran
    best_assignment,
    all_pairs,
    reserve_players,
    \* ---- generate_pairings_v2.py: inputs (df, REQUIRED_PAIRINGS, commitment_map
    \* and hi_map are shared with the other scripts) and locals (all_players,
    \* used_players and rows are shared with generate_pairings_v3.py)
    matchplay_map,       \* name -> [win_pct, matches] of outputs/matchplay_records.csv
    valid_players,
    top_players,
    best_pairings,       \* sequence of <<p1, p2, score>>
    \* ---- generate_pairings_v3.py: inputs (df and REQUIRED_PAIRINGS as above)
    commitment_map,      \* data/players_list.csv: sequence of <<name, commitment>>
    hi_map,              \* name -> current handicap index
    BENCH_PLAYERS,
    AWAY_ONLY_PLAYERS,
    \* ---- generate_pairings_v3.py: locals of generate_pairings
    all_players,
    selected,
    pairings,
    used_players,
    warnings,            \* the names printed in "WARNING: Could not find ..." lines
    anchors,
    gunners,
    rows,
    reserves,
    \* ---- generate_pairings_v4.py: locals of generate_pairings (the inputs
    \* and all_players, selected, anchors, gunners, pairings, used_players,
    \* rows and reserves are shared with generate_pairings_v3.py)
    high_hi_players,
    top_anchors_v4,      \* top_anchors of generate_pairings_v4.py
    mid_anchors,
    wildcards,
    all_high_hi,
    \* ---- generate_pairing_ui.py: the state of the page's script
    allPlayers,          \* the players of the page, best score first
    availablePlayers,    \* the players of the pool
    sections             \* section -> slots of [anchor, gunner]

varsV1 == <<df, ch_lookup, REQUIRED_PAIRINGS, EITHER_OR_PAIRINGS, EXCLUSIONS,
            MIN_CH_DIFF, top_anchors, top_gunners, fixed_pairs, used_anchors,
            used_gunners, remaining_anchors, remaining_gunners, perms_enumerated,
            search_found, used_fallback, best_assignment, all_pairs,
            reserve_players>>

\* the variables only generate_pairings_v3.py uses
varsV3 == <<commitment_map, hi_map, BENCH_PLAYERS, AWAY_ONLY_PLAYERS, all_players,
            selected, pairings, used_players, warnings, anchors, gunners, rows,
            reserves>>

varsV2 == <<matchplay_map, valid_players, top_players, best_pairings>>

\* the variables only generate_pairings_v4.py uses
varsV4 == <<high_hi_players, top_anchors_v4, mid_anchors, wildcards, all_high_hi>>

\* the variables only generate_pairing_ui.py uses
varsUI == <<allPlayers, availablePlayers, sections>>

vars == <<script, pc, outcome, varsV1, varsV2, varsV3, varsV4, varsUI>>

----------------------------------------------------------------------------
(* Generic helpers                                                         *)

Range(s) == {s[i] : i \in DOMAIN s}

Min(a, b) == IF a < b THEN a ELSE b

Abs(x) == IF x < 0 THEN -x ELSE x

\* s[:n]
Take(s, n) == SubSeq(s, 1, Min(n, Len(s)))

RECURSIVE Factorial(_)
Factorial(n) == IF n <= 0 THEN 1 ELSE n * Factorial(n - 1)

\* every ordering of the finite set S, as a sequence
Orderings(S) ==
    {s \in [1..Cardinality(S) -> S] : \A i, j \in DOMAIN s : i # j => s[i] # s[j]}

\* Sorting works on sequences of <<key, item>> pairs.
\* sort by key descending; elements of equal key keep their input order
SortDesc(s) ==
    LET indexed == [i \in DOMAIN s |-> <<s[i][1], i, s[i][2]>>]
        srt == SortSeq(indexed,
                       LAMBDA x, y : x[1] > y[1] \/ (x[1] = y[1] /\ x[2] < y[2]))
    IN  [i \in DOMAIN srt |-> <<srt[i][1], srt[i][3]>>]

----------------------------------------------------------------------------
(* generate_pairings.py: the data the run works on                         *)

\* default of the min_rounds parameter of generate_pairings
min_rounds == 10

\* the pools are cut to the top 8 of each role
TOP_N == 8

\* a row of the analysis table:
\*   [name, Role, has_cvs, cvs, rounds, home_pct]
\* has_cvs is "Combined Value Score is not NaN"; rounds is 'Total Rounds
\* (12 weeks)' and home_pct 'Home Games %'

\* df_valid: rows with a score and at least min_rounds rounds, in df's order
df_valid == SelectSeq(df, LAMBDA r : r.has_cvs /\ r.rounds >= min_rounds)

valid_names == {r.name : r \in Range(df_valid)}

\* the row of df_valid with this name (names are unique)
RowOf(name) == CHOOSE r \in Range(df_valid) : r.name = name

\* df_valid[df_valid['Role'] == role].sort_values('Combined Value Score',
\* ascending=False), as the sequence of its names
ByRoleSorted(role) ==
    LET found == SelectSeq(df_valid, LAMBDA r : r.Role = role)
        keyed == [i \in DOMAIN found |-> <<found[i].cvs, found[i].name>>]
        srt   == SortDesc(keyed)
    IN  [i \in DOMAIN srt |-> srt[i][2]]

anchor_players == ByRoleSorted("Anchor")
wildcard_players == ByRoleSorted("Wildcard")
gunner_players == ByRoleSorted("Gunner")

\* top_anchors after lines 84-88
SelectAnchors ==
    LET base == IF Len(anchor_players) < TOP_N
                THEN anchor_players \o Take(wildcard_players, TOP_N - Len(anchor_players))
                ELSE anchor_players
    IN  Take(base, TOP_N)

\* SelectGunners without the cut to the top TOP_N: the faulty variant the
\* pool-size property is tested against
SelectGunners_NoCut(chosen_anchors) ==
    LET used_wildcard == {n \in Range(chosen_anchors) : RowOf(n).Role = "Wildcard"}
        remaining_wildcard == SelectSeq(wildcard_players, LAMBDA n : n \notin used_wildcard)
    IN  IF Len(gunner_players) < TOP_N
        THEN gunner_players \o Take(remaining_wildcard, TOP_N - Len(gunner_players))
        ELSE gunner_players

\* top_gunners after lines 91-98, given the selected anchors
SelectGunners(chosen_anchors) ==
    LET used_wildcard == {n \in Range(chosen_anchors) : RowOf(n).Role = "Wildcard"}
        remaining_wildcard == SelectSeq(wildcard_players, LAMBDA n : n \notin used_wildcard)
        base == IF Len(gunner_players) < TOP_N
                THEN gunner_players \o Take(remaining_wildcard, TOP_N - Len(gunner_players))
                ELSE gunner_players
    IN  Take(base, TOP_N)

\* lines 141-147
all_required_players ==
    UNION {{REQUIRED_PAIRINGS[i][1], REQUIRED_PAIRINGS[i][2]} : i \in DOMAIN REQUIRED_PAIRINGS}
    \cup UNION {Range(EITHER_OR_PAIRINGS[i][1]) \cup {EITHER_OR_PAIRINGS[i][2]} :
                    i \in DOMAIN EITHER_OR_PAIRINGS}

\* lines 150-163 for the players of order, in that order; pools is
\* <<top_anchors, top_gunners>>
RECURSIVE AddRequiredPlayers(_, _)
AddRequiredPlayers(order, pools) ==
    IF order = <<>> THEN pools
    ELSE LET player_name == Head(order)
             in_anchors == player_name \in Range(pools[1])
             in_gunners == player_name \in Range(pools[2])
             next == IF player_name \in valid_names /\ ~in_anchors /\ ~in_gunners
                     THEN IF RowOf(player_name).Role \in {"Anchor", "Wildcard"}
                          THEN <<Append(pools[1], player_name), pools[2]>>
                          ELSE <<pools[1], Append(pools[2], player_name)>>
                     ELSE pools
         IN  AddRequiredPlayers(Tail(order), next)

\* score_lookup.get(name, 0)
score_lookup(name) == IF name \in valid_names THEN RowOf(name).cvs ELSE 0

\* find_player(pool, name) is not None
found_in(pool, name) == name \in Range(pool)

\* ch_lookup.get(name, 0)
ch_of(name) == IF name \in DOMAIN ch_lookup THEN ch_lookup[name] ELSE 0

get_ch_diff(anchor_name, gunner_name) == Abs(ch_of(gunner_name) - ch_of(anchor_name))

\* EXCLUSIONS.get(name, [])
excluded_for(name) == IF name \in DOMAIN EXCLUSIONS THEN EXCLUSIONS[name] ELSE {}

\* is_valid_pairing with the course-handicap test one stroke too lenient:
\* the faulty variant the handicap properties are tested against
is_valid_pairing_ChOffByOne(anchor_name, gunner_name) ==
    IF gunner_name \in excluded_for(anchor_name) THEN FALSE
    ELSE IF DOMAIN ch_lookup # {}
         THEN get_ch_diff(anchor_name, gunner_name) >= MIN_CH_DIFF - 1
         ELSE TRUE

is_valid_pairing(anchor_name, gunner_name) ==
    IF gunner_name \in excluded_for(anchor_name) THEN FALSE
    ELSE IF DOMAIN ch_lookup # {}
         THEN get_ch_diff(anchor_name, gunner_name) >= MIN_CH_DIFF
         ELSE TRUE

\* get_combined_score as the product of the two scores: the faulty variant
\* the equal-total property is tested against
get_combined_score_Product(anchor_name, gunner_name) ==
    score_lookup(anchor_name) * score_lookup(gunner_name)

get_combined_score(anchor_name, gunner_name) ==
    score_lookup(anchor_name) + score_lookup(gunner_name)

----------------------------------------------------------------------------
(* generate_pairings.py: fixed pairs (lines 204-242)                       *)

\* the player is found in top_anchors or in top_gunners
in_either_pool(name) == found_in(top_anchors, name) \/ found_in(top_gunners, name)

\* ApplyRequired looking for each member only in the pool of its own
\* position: the faulty variant the required-pair property is tested against
ApplyRequired_OwnPoolOnly(st, pairing) ==
    LET anchor_name == pairing[1]
        gunner_name == pairing[2]
    IN  IF found_in(top_anchors, anchor_name) /\ found_in(top_gunners, gunner_name)
        THEN [fixed_pairs  |-> Append(st.fixed_pairs, <<anchor_name, gunner_name, "REQUIRED">>),
              used_anchors |-> st.used_anchors \cup {anchor_name},
              used_gunners |-> st.used_gunners \cup {gunner_name}]
        ELSE st

\* one pass of the loop over REQUIRED_PAIRINGS (lines 210-223);
\* st is [fixed_pairs, used_anchors, used_gunners]
ApplyRequired(st, pairing) ==
    LET anchor_name == pairing[1]
        gunner_name == pairing[2]
    IN  IF in_either_pool(anchor_name) /\ in_either_pool(gunner_name)
        THEN [fixed_pairs  |-> Append(st.fixed_pairs, <<anchor_name, gunner_name, "REQUIRED">>),
              used_anchors |-> st.used_anchors \cup {anchor_name},
              used_gunners |-> st.used_gunners \cup {gunner_name}]
        ELSE st

RECURSIVE RequiredLoop(_, _)
RequiredLoop(st, entries) ==
    IF entries = <<>> THEN st
    ELSE RequiredLoop(ApplyRequired(st, Head(entries)), Tail(entries))

\* TryOptions with the options tried from the last to the first: the faulty
\* variant the either/or property is tested against
RECURSIVE TryOptions_Reversed(_, _, _)
TryOptions_Reversed(st, anchor_options, gunner_name) ==
    IF anchor_options = <<>> THEN st
    ELSE LET later == TryOptions_Reversed(st, Tail(anchor_options), gunner_name)
             anchor_name == Head(anchor_options)
         IN  IF later # st THEN later
             ELSE IF in_either_pool(anchor_name) /\ anchor_name \notin st.used_anchors
                  THEN [fixed_pairs  |-> Append(st.fixed_pairs,
                                               <<anchor_name, gunner_name, "REQUIRED (either/or)">>),
                        used_anchors |-> st.used_anchors \cup {anchor_name},
                        used_gunners |-> st.used_gunners \cup {gunner_name}]
                  ELSE st

\* the inner loop over anchor_options (lines 233-242): the first option that
\* is found and not in used_anchors is taken
RECURSIVE TryOptions(_, _, _)
TryOptions(st, anchor_options, gunner_name) ==
    IF anchor_options = <<>> THEN st
    ELSE LET anchor_name == Head(anchor_options)
         IN  IF in_either_pool(anchor_name) /\ anchor_name \notin st.used_anchors
             THEN [fixed_pairs  |-> Append(st.fixed_pairs,
                                          <<anchor_name, gunner_name, "REQUIRED (either/or)">>),
                   used_anchors |-> st.used_anchors \cup {anchor_name},
                   used_gunners |-> st.used_gunners \cup {gunner_name}]
             ELSE TryOptions(st, Tail(anchor_options), gunner_name)

\* one pass of the loop over EITHER_OR_PAIRINGS (lines 226-242)
ApplyEitherOr(st, entry) ==
    LET anchor_options == entry[1]
        gunner_name    == entry[2]
    IN  IF in_either_pool(gunner_name) /\ gunner_name \notin st.used_gunners
        THEN TryOptions(st, anchor_options, gunner_name)
        ELSE st

RECURSIVE EitherOrLoop(_, _)
EitherOrLoop(st, entries) ==
    IF entries = <<>> THEN st
    ELSE EitherOrLoop(ApplyEitherOr(st, Head(entries)), Tail(entries))

----------------------------------------------------------------------------
(* generate_pairings.py: the permutation search (lines 253-269)            *)

\* The loop runs over permutations(remaining_gunners) in itertools order
\* (lexicographic in the positions of remaining_gunners) and zips each with
\* remaining_anchors, so only the first n = min(m, k) entries of a
\* permutation are read.  All permutations with the same first n entries give
\* the same pairs, and of those only the first can pass the strict test
\* total_score > best_total_score.  The loop therefore meets the injective
\* position sequences of length n in lexicographic order; a sequence is
\* dropped at its first invalid pair (the loop's break).  The loop's
\* variables are kept as
\*   best = [found, total, assignment],
\* found = FALSE being best_assignment = None and total best_total_score.

PairsOf(ra, rg, positions) == [i \in DOMAIN positions |-> <<ra[i], rg[positions[i]]>>]

RECURSIVE TotalScore(_)
TotalScore(pairs) ==
    IF pairs = <<>> THEN 0
    ELSE get_combined_score(Head(pairs)[1], Head(pairs)[2]) + TotalScore(Tail(pairs))

\* best_total_score = -1 (line 255)
NoAssignment == [found |-> FALSE, total |-> -1, assignment |-> <<>>]

\* KeepBetter with >= for >: the faulty variant the tie properties are
\* tested against
KeepBetter_AcceptTies(best, candidate) ==
    IF candidate.found /\ candidate.total >= best.total THEN candidate ELSE best

\* the test of line 267 between the best so far and a later valid candidate
KeepBetter(best, candidate) ==
    IF candidate.found /\ candidate.total > best.total THEN candidate ELSE best

\* the loop's result over the sequences that extend prefix with a position
\* from j on, met in order
RECURSIVE BestFrom(_, _, _, _, _)
BestFrom(ra, rg, prefix, j, best) ==
    IF j > Len(rg) THEN best
    ELSE IF j \in Range(prefix) \/ ~is_valid_pairing(ra[Len(prefix) + 1], rg[j])
         THEN BestFrom(ra, rg, prefix, j + 1, best)
         ELSE LET longer == Append(prefix, j)
                  below  == IF Len(longer) = Min(Len(ra), Len(rg))
                            THEN [found |-> TRUE,
                                  total |-> TotalScore(PairsOf(ra, rg, longer)),
                                  assignment |-> PairsOf(ra, rg, longer)]
                            ELSE BestFrom(ra, rg, longer, 1, NoAssignment)
              IN  BestFrom(ra, rg, prefix, j + 1, KeepBetter(best, below))

\* best_assignment and best_total_score after the loop.  With an empty pool
\* the zip is empty: the first permutation is valid with total 0.
PermutationSearch(ra, rg) ==
    IF Min(Len(ra), Len(rg)) = 0
    THEN KeepBetter(NoAssignment, [found |-> TRUE, total |-> 0, assignment |-> <<>>])
    ELSE BestFrom(ra, rg, <<>>, 1, NoAssignment)

\* the greedy fallback (lines 275-282): anchors in order, each takes the first
\* gunner not yet taken and not in the anchor's exclusion list
\* FirstFree without the exclusion test: the faulty variant the fallback
\* property is tested against
RECURSIVE FirstFree_IgnoreExclusions(_, _, _)
FirstFree_IgnoreExclusions(anchor, candidates, taken) ==
    IF candidates = <<>> THEN <<>>
    ELSE IF Head(candidates) \notin taken
         THEN <<Head(candidates)>>
         ELSE FirstFree_IgnoreExclusions(anchor, Tail(candidates), taken)

RECURSIVE FirstFree(_, _, _)
FirstFree(anchor, candidates, taken) ==
    IF candidates = <<>> THEN <<>>
    ELSE IF Head(candidates) \notin taken /\ Head(candidates) \notin excluded_for(anchor)
         THEN <<Head(candidates)>>
         ELSE FirstFree(anchor, Tail(candidates), taken)

RECURSIVE GreedyFallback(_, _, _)
GreedyFallback(ra, rg, temp_used_gunners) ==
    IF ra = <<>> THEN <<>>
    ELSE LET pick == FirstFree(Head(ra), rg, temp_used_gunners)
         IN  IF pick = <<>>
             THEN GreedyFallback(Tail(ra), rg, temp_used_gunners)
             ELSE <<<<Head(ra), pick[1]>>>> \o
                  GreedyFallback(Tail(ra), rg, temp_used_gunners \cup {pick[1]})

\* the players the loop of lines 150-163 appends: required, with a valid
\* row, in neither pool
missing_required ==
    {p \in all_required_players :
        p \in valid_names /\ ~found_in(top_anchors, p) /\ ~found_in(top_gunners, p)}

----------------------------------------------------------------------------
(* generate_pairings.py: the steps of one run                              *)

\* lines 60-98: filter, split by role, select the two pools
V1Select ==
    /\ script = "v1" /\ pc = "start"
    /\ top_anchors' = SelectAnchors
    /\ top_gunners' = SelectGunners(SelectAnchors)
    /\ pc' = "selected"
    /\ UNCHANGED <<varsUI, varsV2, varsV3, varsV4, script, outcome, df, ch_lookup, REQUIRED_PAIRINGS, EITHER_OR_PAIRINGS,
                   EXCLUSIONS, MIN_CH_DIFF, fixed_pairs, used_anchors, used_gunners,
                   remaining_anchors, remaining_gunners, perms_enumerated, search_found,
                   used_fallback, best_assignment, all_pairs, reserve_players>>

\* lines 139-163: every required player with a valid row that is in neither
\* pool is appended to the pool of its role.  all_required_players is a
\* Python set of strings: its iteration order is not fixed by the program.
\* The passes for the other players change nothing, so the order of the run
\* is the order in which the players to append come up.
V1EnsureRequired ==
    /\ script = "v1" /\ pc = "selected"
    /\ \E order \in Orderings(missing_required) :
         LET pools == AddRequiredPlayers(order, <<top_anchors, top_gunners>>)
         IN  /\ top_anchors' = pools[1]
             /\ top_gunners' = pools[2]
    /\ pc' = "pooled"
    /\ UNCHANGED <<varsUI, varsV2, varsV3, varsV4, script, outcome, df, ch_lookup, REQUIRED_PAIRINGS, EITHER_OR_PAIRINGS,
                   EXCLUSIONS, MIN_CH_DIFF, fixed_pairs, used_anchors, used_gunners,
                   remaining_anchors, remaining_gunners, perms_enumerated, search_found,
                   used_fallback, best_assignment, all_pairs, reserve_players>>

\* lines 204-223
V1Required ==
    /\ script = "v1" /\ pc = "pooled"
    /\ LET st == RequiredLoop([fixed_pairs |-> <<>>, used_anchors |-> {},
                               used_gunners |-> {}], REQUIRED_PAIRINGS)
       IN  /\ fixed_pairs' = st.fixed_pairs
           /\ used_anchors' = st.used_anchors
           /\ used_gunners' = st.used_gunners
    /\ pc' = "required"
    /\ UNCHANGED <<varsUI, varsV2, varsV3, varsV4, script, outcome, df, ch_lookup, REQUIRED_PAIRINGS, EITHER_OR_PAIRINGS,
                   EXCLUSIONS, MIN_CH_DIFF, top_anchors, top_gunners,
                   remaining_anchors, remaining_gunners, perms_enumerated, search_found,
                   used_fallback, best_assignment, all_pairs, reserve_players>>

\* lines 225-242
V1EitherOr ==
    /\ script = "v1" /\ pc = "required"
    /\ LET st == EitherOrLoop([fixed_pairs |-> fixed_pairs, used_anchors |-> used_anchors,
                               used_gunners |-> used_gunners], EITHER_OR_PAIRINGS)
       IN  /\ fixed_pairs' = st.fixed_pairs
           /\ used_anchors' = st.used_anchors
           /\ used_gunners' = st.used_gunners
    /\ pc' = "fixed"
    /\ UNCHANGED <<varsUI, varsV2, varsV3, varsV4, script, outcome, df, ch_lookup, REQUIRED_PAIRINGS, EITHER_OR_PAIRINGS,
                   EXCLUSIONS, MIN_CH_DIFF, top_anchors, top_gunners,
                   remaining_anchors, remaining_gunners, perms_enumerated, search_found,
                   used_fallback, best_assignment, all_pairs, reserve_players>>

\* lines 244-269: the remaining pools and the permutation loop
V1Search ==
    /\ script = "v1" /\ pc = "fixed"
    /\ LET all_used_players == used_anchors \cup used_gunners
           ra == SelectSeq(top_anchors, LAMBDA n : n \notin all_used_players)
           rg == SelectSeq(top_gunners, LAMBDA n : n \notin all_used_players)
           best == PermutationSearch(ra, rg)
       IN  /\ remaining_anchors' = ra
           /\ remaining_gunners' = rg
           /\ perms_enumerated' = Factorial(Len(rg))
           /\ search_found' = best.found
           /\ best_assignment' = best.assignment
    /\ pc' = "searched"
    /\ UNCHANGED <<varsUI, varsV2, varsV3, varsV4, script, outcome, df, ch_lookup, REQUIRED_PAIRINGS, EITHER_OR_PAIRINGS,
                   EXCLUSIONS, MIN_CH_DIFF, top_anchors, top_gunners, fixed_pairs,
                   used_anchors, used_gunners, used_fallback, all_pairs, reserve_players>>

\* lines 271-282: best_assignment is None, the greedy fallback replaces it
V1Fallback ==
    /\ script = "v1" /\ pc = "searched" /\ ~search_found
    /\ best_assignment' = GreedyFallback(remaining_anchors, remaining_gunners, {})
    /\ used_fallback' = TRUE
    /\ pc' = "assigned"
    /\ UNCHANGED <<varsUI, varsV2, varsV3, varsV4, script, outcome, df, ch_lookup, REQUIRED_PAIRINGS, EITHER_OR_PAIRINGS,
                   EXCLUSIONS, MIN_CH_DIFF, top_anchors, top_gunners, fixed_pairs,
                   used_anchors, used_gunners, remaining_anchors, remaining_gunners,
                   perms_enumerated, search_found, all_pairs, reserve_players>>

\* line 271 with best_assignment set: the search result is kept
V1KeepSearchResult ==
    /\ script = "v1" /\ pc = "searched" /\ search_found
    /\ pc' = "assigned"
    /\ UNCHANGED <<varsUI, varsV2, varsV3, varsV4, script, outcome, varsV1>>

\* all_pairs of lines 284-306 from the fixed pairs and the optimized pairs:
\* the fixed pairs, then the optimized pairs as AUTO, sorted by the pair's
\* combined score, highest first
PairList(fixed_list, assignment) ==
    LET fixed == [i \in DOMAIN fixed_list |->
                    [anchor |-> fixed_list[i][1], gunner |-> fixed_list[i][2],
                     constraint |-> fixed_list[i][3],
                     ch_diff |-> get_ch_diff(fixed_list[i][1], fixed_list[i][2])]]
        auto  == [i \in DOMAIN assignment |->
                    [anchor |-> assignment[i][1], gunner |-> assignment[i][2],
                     constraint |-> "AUTO",
                     ch_diff |-> get_ch_diff(assignment[i][1], assignment[i][2])]]
        both  == fixed \o auto
        keyed == [i \in DOMAIN both |->
                    <<RowOf(both[i].anchor).cvs + RowOf(both[i].gunner).cvs, both[i]>>]
        srt   == SortDesc(keyed)
    IN  [i \in DOMAIN srt |-> srt[i][2]]

CombinedPairs == PairList(fixed_pairs, best_assignment)

\* reserve_players of lines 415-420: valid players in neither pool, best first
Reserves ==
    LET in_pools == Range(top_anchors) \cup Range(top_gunners)
        left  == SelectSeq(df_valid, LAMBDA r : r.name \notin in_pools)
        keyed == [i \in DOMAIN left |-> <<left[i].cvs, left[i].name>>]
        srt   == SortDesc(keyed)
    IN  [i \in DOMAIN srt |-> srt[i][2]]

\* lines 284-432.  pd.DataFrame([]) has no columns, so with no pair at all
\* pairings_df['Pair Combined Score'] (line 349) raises KeyError and the
\* function never returns.
V1Output ==
    /\ script = "v1" /\ pc = "assigned"
    /\ all_pairs' = CombinedPairs
    /\ IF CombinedPairs = <<>>
       THEN /\ outcome' = "KeyError"
            /\ reserve_players' = reserve_players
       ELSE /\ outcome' = "completed"
            /\ reserve_players' = Reserves
    /\ pc' = "done"
    /\ UNCHANGED <<varsUI, varsV2, varsV3, varsV4, script, df, ch_lookup, REQUIRED_PAIRINGS, EITHER_OR_PAIRINGS,
                   EXCLUSIONS, MIN_CH_DIFF, top_anchors, top_gunners, fixed_pairs,
                   used_anchors, used_gunners, remaining_anchors, remaining_gunners,
                   perms_enumerated, search_found, used_fallback, best_assignment>>

NextV1 ==
    \/ V1Select
    \/ V1EnsureRequired
    \/ V1Required
    \/ V1EitherOr
    \/ V1Search
    \/ V1Fallback
    \/ V1KeepSearchResult
    \/ V1Output

----------------------------------------------------------------------------
(* generate_pairings.py: the inputs of a run                               *)

\* scores of the rosters whose scores vary are drawn from 1..MaxScore
MaxScore == 2

\* rows of the analysis table
Row(name, role, cvs) ==
    [name |-> name, Role |-> role, has_cvs |-> TRUE, cvs |-> cvs, rounds |-> min_rounds,
     home_pct |-> 50]
\* a row without a Combined Value Score
NanRow(name) ==
    [name |-> name, Role |-> "Unknown", has_cvs |-> FALSE, cvs |-> 0, rounds |-> min_rounds,
     home_pct |-> 50]
\* a row with too few rounds
FewRow(name, cvs) ==
    [name |-> name, Role |-> "Anchor", has_cvs |-> TRUE, cvs |-> cvs, rounds |-> min_rounds - 1,
     home_pct |-> 50]

\* the constraints as the script ships them (lines 122-137)
ShippedRequired == << <<"Greg Park", "Hugo Lamprecht">> >>
ShippedEitherOr == << << <<"Ian Scott", "Grant Syme">>, "Matt Maritz" >> >>
ShippedExclusions ==
    [n \in {"Jacques vd Berg"} |-> {"Gerdus Theron", "Frank Coetzee", "Marcelle Smith"}]
ShippedMinChDiff == 2

NoExclusions == [n \in {} |-> {}]
NoChData == [n \in {} |-> 0]

Input(d, ch, req, eo, exc, mindiff) ==
    [df |-> d, ch_lookup |-> ch, REQUIRED_PAIRINGS |-> req, EITHER_OR_PAIRINGS |-> eo,
     EXCLUSIONS |-> exc, MIN_CH_DIFF |-> mindiff]

\* Rosters of the players the fixed pairings name.  Every player is an Anchor, a
\* Wildcard, a Gunner or has no valid row; the scores fall with the row number.
FixedNames == <<"Greg Park", "Hugo Lamprecht", "Ian Scott", "Matt Maritz">>
Kinds == {"Anchor", "Wildcard", "Gunner", "invalid"}
FixedRoster(kind) ==
    [i \in DOMAIN FixedNames |->
        IF kind[i] = "invalid"
        THEN IF i % 2 = 1 THEN NanRow(FixedNames[i])
             ELSE FewRow(FixedNames[i], Len(FixedNames) + 1 - i)
        ELSE Row(FixedNames[i], kind[i], Len(FixedNames) + 1 - i)]
FixedCh == [n \in Range(FixedNames) |->
              CASE n = "Greg Park" -> 0 [] n = "Hugo Lamprecht" -> 1
                [] n = "Ian Scott" -> 0 [] OTHER -> 3]
FixedRequiredChoices ==
    {<<>>, ShippedRequired, << <<"Greg Park", "Hugo Lamprecht">>, <<"Ian Scott", "Matt Maritz">> >>}
FixedEitherOrChoices ==
    {<<>>, ShippedEitherOr, << << <<"Hugo Lamprecht", "Ian Scott">>, "Matt Maritz" >> >>}
FixedInputs ==
    {Input(FixedRoster(kind), ch, req, eo, ShippedExclusions, ShippedMinChDiff) :
        kind \in [DOMAIN FixedNames -> Kinds], ch \in {NoChData, FixedCh},
        req \in FixedRequiredChoices, eo \in FixedEitherOrChoices}

\* Rosters of the players the exclusion list names, each with a role, a score
\* of 1..MaxScore and a course handicap of 0 or ShippedMinChDiff, under the
\* shipped fixed pairings (whose players are then absent from the table).
ValueNames == <<"Jacques vd Berg", "Gerdus Theron", "Frank Coetzee", "Marcelle Smith">>
ValueRoles ==
    {r \in [DOMAIN ValueNames -> {"Anchor", "Wildcard", "Gunner"}] :
        r[3] # "Wildcard" /\ r[4] # "Anchor"}
ValueScores == {s \in [DOMAIN ValueNames -> 1..MaxScore] : s[4] = 1}
ValueRoster(role, cvs) ==
    [i \in DOMAIN ValueNames |-> Row(ValueNames[i], role[i], cvs[i])]
ValueChChoices ==
    {NoChData} \cup
    {c \in [Range(ValueNames) -> {0, ShippedMinChDiff}] : c["Jacques vd Berg"] = 0}
ValueConstraintChoices ==
    {<<ShippedExclusions, ShippedMinChDiff>>, <<ShippedExclusions, 0>>, <<NoExclusions, 0>>}
ValueInputs ==
    {Input(ValueRoster(role, cvs), ch, ShippedRequired, ShippedEitherOr, con[1], con[2]) :
        role \in ValueRoles, cvs \in ValueScores, ch \in ValueChChoices,
        con \in ValueConstraintChoices}

\* The scenarios of the specification: anchors A1 (score 9, handicap 5) and
\* A2 (4, 20), gunners B1 (8, 25) and B2 (3, 6), with no constraint, with a
\* required pairing, or with an exclusion.
ScenarioRoster ==
    <<Row("A1", "Anchor", 9), Row("A2", "Anchor", 4),
      Row("B1", "Gunner", 8), Row("B2", "Gunner", 3)>>
ScenarioCh ==
    [n \in {"A1", "A2", "B1", "B2"} |->
        CASE n = "A1" -> 5 [] n = "A2" -> 20 [] n = "B1" -> 25 [] OTHER -> 6]
ScenarioA == Input(ScenarioRoster, ScenarioCh, <<>>, <<>>, NoExclusions, 0)
ScenarioInputs ==
    {Input(ScenarioRoster, ScenarioCh, req, <<>>, exc, 0) :
        req \in {<<>>, << <<"A1", "B2">> >>, << <<"B2", "A1">> >>},
        exc \in {NoExclusions, [n \in {"A1"} |-> {"B1"}], [n \in {"B1"} |-> {"A1"}]}}

\* Full pools: TOP_N + 1 better-scored Gunners (the last is cut from the
\* pool), and none or TOP_N better-scored Anchors, ahead of the players of the
\* shipped fixed pairings, so that those are appended to the pools by lines
\* 150-163.  With both pools full every
\* course handicap is 0, so that no pair passes is_valid_pairing.
FillerGunners == <<"Gunner 1", "Gunner 2", "Gunner 3", "Gunner 4",
                   "Gunner 5", "Gunner 6", "Gunner 7", "Gunner 8", "Gunner 9">>
FillerAnchors == <<"Anchor 1", "Anchor 2", "Anchor 3", "Anchor 4",
                   "Anchor 5", "Anchor 6", "Anchor 7", "Anchor 8">>
FillerRows(names, role, n) == [i \in 1..n |-> Row(names[i], role, 9)]
LargeNames == <<"Greg Park", "Hugo Lamprecht", "Ian Scott", "Grant Syme", "Matt Maritz">>
LargeKinds == {"Anchor", "Gunner", "invalid"}
LargeRoster(kind, nAnchors) ==
    FillerRows(FillerGunners, "Gunner", TOP_N + 1) \o
    FillerRows(FillerAnchors, "Anchor", nAnchors) \o
    [i \in DOMAIN LargeNames |->
        IF kind[i] = "invalid" THEN NanRow(LargeNames[i])
        ELSE Row(LargeNames[i], kind[i], Len(LargeNames) + 1 - i)]
LargeCh == [n \in {"Gunner 1"} |-> 0]
LargeInputs ==
    {Input(LargeRoster(kind, 0), NoChData, ShippedRequired, ShippedEitherOr,
           ShippedExclusions, ShippedMinChDiff) : kind \in [DOMAIN LargeNames -> LargeKinds]}
    \cup
    {Input(LargeRoster(kind, TOP_N), LargeCh, ShippedRequired, ShippedEitherOr,
           ShippedExclusions, ShippedMinChDiff) : kind \in [DOMAIN LargeNames -> LargeKinds]}

\* Rosters for the either/or pairing as shipped: its two options and its
\* fixed player, each an Anchor, a Gunner or without a valid row, with
\* scores of 1..MaxScore, and Greg Park; an option may be taken by a
\* required pairing before the either/or pairing is looked at.
OptionNames == <<"Ian Scott", "Grant Syme", "Matt Maritz", "Greg Park">>
OptionKinds == {"Anchor", "Gunner", "invalid"}
OptionRoster(kind, cvs) ==
    [i \in DOMAIN OptionNames |->
        IF kind[i] = "invalid" THEN NanRow(OptionNames[i])
        ELSE Row(OptionNames[i], kind[i], cvs[i])]
OptionRequiredChoices == {ShippedRequired, << <<"Ian Scott", "Greg Park">> >>}
OptionInputs ==
    {Input(OptionRoster(kind, cvs), NoChData, req, ShippedEitherOr, NoExclusions, 0) :
        kind \in [DOMAIN OptionNames -> OptionKinds],
        cvs \in [DOMAIN OptionNames -> 1..MaxScore],
        req \in OptionRequiredChoices}

\* Pools of the same size: three Anchors and three Gunners, all of different
\* scores, with no fixed pairing; every Anchor excludes at most two of the
\* Gunners.
EqualAnchors == SubSeq(FillerAnchors, 1, 3)
EqualGunners == SubSeq(FillerGunners, 1, 3)
EqualRoster ==
    [i \in 1..3 |-> Row(EqualAnchors[i], "Anchor", 8 - 2 * i)] \o
    [i \in 1..3 |-> Row(EqualGunners[i], "Gunner", 7 - 2 * i)]
EqualExclusions ==
    [Range(EqualAnchors) -> {g \in SUBSET Range(EqualGunners) : Cardinality(g) <= 2}]
EqualInputs ==
    {Input(EqualRoster, NoChData, <<>>, <<>>, exc, 0) : exc \in EqualExclusions}

V1Inputs ==
    FixedInputs \cup ValueInputs \cup ScenarioInputs \cup LargeInputs \cup OptionInputs
        \cup EqualInputs

\* the locals of generate_pairings.py before the script has run
IdleV1 ==
    /\ top_anchors = <<>> /\ top_gunners = <<>>
    /\ fixed_pairs = <<>> /\ used_anchors = {} /\ used_gunners = {}
    /\ remaining_anchors = <<>> /\ remaining_gunners = <<>>
    /\ perms_enumerated = 0 /\ search_found = FALSE /\ used_fallback = FALSE
    /\ best_assignment = <<>> /\ all_pairs = <<>> /\ reserve_players = <<>>

\* the variables of generate_pairings_v2.py before the script has run
IdleV2 ==
    /\ matchplay_map = <<>> /\ valid_players = <<>> /\ top_players = <<>>
    /\ best_pairings = <<>>

\* the locals of generate_pairings_v3.py before the script has run
IdleV3 ==
    /\ all_players = <<>> /\ selected = <<>> /\ pairings = <<>> /\ used_players = {}
    /\ warnings = <<>>
    /\ anchors = <<>> /\ gunners = <<>> /\ rows = <<>> /\ reserves = <<>>

\* the locals of generate_pairings_v4.py before the script has run
IdleV4 ==
    /\ high_hi_players = <<>> /\ top_anchors_v4 = <<>> /\ mid_anchors = <<>>
    /\ wildcards = <<>> /\ all_high_hi = <<>>

\* the state of the page before generate_pairing_ui.py has run
IdleUI == allPlayers = <<>> /\ availablePlayers = <<>> /\ sections = <<>>

InitV1 ==
    /\ script = "v1" /\ pc = "start" /\ outcome = "running"
    /\ \E inp \in V1Inputs :
         /\ df = inp.df
         /\ ch_lookup = inp.ch_lookup
         /\ REQUIRED_PAIRINGS = inp.REQUIRED_PAIRINGS
         /\ EITHER_OR_PAIRINGS = inp.EITHER_OR_PAIRINGS
         /\ EXCLUSIONS = inp.EXCLUSIONS
         /\ MIN_CH_DIFF = inp.MIN_CH_DIFF
    /\ IdleV1
    /\ commitment_map = <<>> /\ hi_map = NoChData
    /\ BENCH_PLAYERS = {} /\ AWAY_ONLY_PLAYERS = {}
    /\ IdleV2
    /\ IdleV3
    /\ IdleV4
    /\ IdleUI

SpecV1 == InitV1 /\ [][NextV1]_vars

----------------------------------------------------------------------------
(* generate_pairings_v3.py: the data the run works on                      *)

\* hi_map.get(name, 15)
DefaultHI == 15
MIN_HOME_ROUNDS == 5
\* "We need 16 players for 8 pairs", of which the first 4 play HOME
SELECT_N == 16
PAIRS_N == 8
HOME_N == 4

\* Python's round() of the quotient n / d: to the nearest integer, a half to
\* the even neighbour
RoundHalfEven(n, d) ==
    LET q == n \div d
        r == n % d
    IN  IF 2 * r < d THEN q
        ELSE IF 2 * r > d THEN q + 1
        ELSE IF q % 2 = 0 THEN q ELSE q + 1

\* sort by key ascending; elements of equal key keep their input order
SortAsc(s) ==
    LET neg == [i \in DOMAIN s |-> <<0 - s[i][1], s[i][2]>>]
        srt == SortDesc(neg)
    IN  [i \in DOMAIN srt |-> <<0 - srt[i][1], srt[i][2]>>]

\* analysis_df[analysis_df['Player Name'] == name] is not empty
has_analysis_row(name) == \E i \in DOMAIN df : df[i].name = name

\* .iloc[0] of that selection
first_analysis_row(name) ==
    df[CHOOSE i \in DOMAIN df :
          df[i].name = name /\ \A j \in 1..(i - 1) : df[j].name # name]

commitment_names == [i \in DOMAIN commitment_map |-> commitment_map[i][1]]

commitment_of(name) ==
    LET i == CHOOSE k \in DOMAIN commitment_map : commitment_map[k][1] = name
    IN  commitment_map[i][2]

\* get_player_data (lines 77-120) for a player with an analysis row.  The
\* rows of the runs modelled all carry a Combined Value Score.
get_player_data(name) ==
    LET row == first_analysis_row(name)
        home_rounds == IF row.home_pct > 0
                       THEN RoundHalfEven(row.rounds * row.home_pct, 100)
                       ELSE 0
    IN  [name |-> name,
         cvs |-> row.cvs,
         total_rounds |-> row.rounds,
         home_rounds |-> home_rounds,
         commitment |-> commitment_of(name),
         hi |-> IF name \in DOMAIN hi_map THEN hi_map[name] ELSE DefaultHI,
         can_play_home |-> name \notin AWAY_ONLY_PLAYERS /\ home_rounds >= MIN_HOME_ROUNDS]

\* list.sort(key=cvs, reverse=True) and list.sort(key=hi) on player records
SortByCvsDesc(players) ==
    LET srt == SortDesc([i \in DOMAIN players |-> <<players[i].cvs, players[i]>>])
    IN  [i \in DOMAIN srt |-> srt[i][2]]
SortByCvsAsc(players) ==
    LET srt == SortAsc([i \in DOMAIN players |-> <<players[i].cvs, players[i]>>])
    IN  [i \in DOMAIN srt |-> srt[i][2]]
SortByHi(players) ==
    LET srt == SortAsc([i \in DOMAIN players |-> <<players[i].hi, players[i]>>])
    IN  [i \in DOMAIN srt |-> srt[i][2]]

\* lines 141-149: the players of the commitment list that have an analysis
\* row (cvs is None for the others), best score first
LoadPlayers ==
    LET with_data == SelectSeq(commitment_names, has_analysis_row)
    IN  SortByCvsDesc([i \in DOMAIN with_data |-> get_player_data(with_data[i])])

\* Tier without the test of the bench: the faulty variant the bench
\* property is tested against
Tier_WithBench(commitment) ==
    SelectSeq(all_players, LAMBDA p : p.commitment = commitment)

\* lines 152-154
Tier(commitment) ==
    SelectSeq(all_players,
              LAMBDA p : p.commitment = commitment /\ p.name \notin BENCH_PLAYERS)

\* SelectPlayers cutting the whole list at 16: the faulty variant the tier
\* property is tested against
SelectPlayers_CutAll ==
    Take(Tier("Full") \o Tier("Month-2-month") \o Tier("TBC"), SELECT_N)

\* lines 170-179: all committed players, then monthly, then TBC up to 16
SelectPlayers ==
    LET committed == Tier("Full")
        with_monthly == committed \o Take(Tier("Month-2-month"), SELECT_N - Len(committed))
    IN  with_monthly \o Take(Tier("TBC"), SELECT_N - Len(with_monthly))

\* the while loops of lines 195-202: as long as the first list has more than
\* 8 players, its lowest-scored player is appended to the second.  The
\* result is <<first list, second list>>.
RECURSIVE MoveLowest(_, _)
MoveLowest(from, to) ==
    IF Len(from) > PAIRS_N
    THEN MoveLowest(Tail(SortByCvsAsc(from)), Append(to, Head(SortByCvsAsc(from))))
    ELSE <<from, to>>

\* lines 188-206 for a non-empty selection sorted by handicap index: the
\* split at the median, balanced and sorted by score
MedianSplit(by_hi) ==
    LET median_hi == by_hi[(Len(by_hi) \div 2) + 1].hi
        low  == SelectSeq(by_hi, LAMBDA p : p.hi < median_hi)
        high == SelectSeq(by_hi, LAMBDA p : p.hi >= median_hi)
        first  == MoveLowest(low, high)
        second == MoveLowest(first[2], first[1])
    IN  [anchors |-> SortByCvsDesc(second[2]), gunners |-> SortByCvsDesc(second[1])]

\* find_player (lines 230-234): the position of the first player of that name
\* in the list, 0 for None
find_player(name, player_list) ==
    IF \E i \in DOMAIN player_list : player_list[i].name = name
    THEN CHOOSE i \in DOMAIN player_list :
            player_list[i].name = name /\ \A j \in 1..(i - 1) : player_list[j].name # name
    ELSE 0

\* make_pairing (lines 237-250)
make_pairing(anchor, gunner, constraint_type) ==
    [anchor |-> anchor,
     gunner |-> gunner,
     pair_cvs |-> anchor.cvs + gunner.cvs,
     hi_spread |-> Abs(anchor.hi - gunner.hi),
     committed_count |-> (IF anchor.commitment = "Full" THEN 1 ELSE 0)
                         + (IF gunner.commitment = "Full" THEN 1 ELSE 0),
     can_play_home |-> anchor.can_play_home /\ gunner.can_play_home,
     constraint |-> constraint_type]

\* ApplyRequiredV3 that skips an entry without the WARNING line: the faulty
\* variant the skipped-entry property is tested against
ApplyRequiredV3_NoWarning(st, pairing) ==
    LET i1 == find_player(pairing[1], selected)
        i2 == find_player(pairing[2], selected)
    IN  IF i1 # 0 /\ i2 # 0
        THEN LET p1 == selected[i1]
                 p2 == selected[i2]
                 made == IF p1.hi < p2.hi
                         THEN make_pairing(p1, p2, "REQUIRED")
                         ELSE make_pairing(p2, p1, "REQUIRED")
             IN  [pairings |-> Append(st.pairings, made),
                  used_players |-> st.used_players \cup {p1.name, p2.name},
                  warnings |-> st.warnings]
        ELSE st

\* one pass of the loop over REQUIRED_PAIRINGS (lines 258-275); st holds
\* pairings, used_players and warnings
ApplyRequiredV3(st, pairing) ==
    LET i1 == find_player(pairing[1], selected)
        i2 == find_player(pairing[2], selected)
    IN  IF i1 # 0 /\ i2 # 0
        THEN LET p1 == selected[i1]
                 p2 == selected[i2]
                 made == IF p1.hi < p2.hi
                         THEN make_pairing(p1, p2, "REQUIRED")
                         ELSE make_pairing(p2, p1, "REQUIRED")
             IN  [pairings |-> Append(st.pairings, made),
                  used_players |-> st.used_players \cup {p1.name, p2.name},
                  warnings |-> st.warnings]
        ELSE [pairings |-> st.pairings,
              used_players |-> st.used_players,
              warnings |-> Append(st.warnings, IF i1 = 0 THEN pairing[1] ELSE pairing[2])]

RECURSIVE RequiredLoopV3(_, _)
RequiredLoopV3(st, entries) ==
    IF entries = <<>> THEN st
    ELSE RequiredLoopV3(ApplyRequiredV3(st, Head(entries)), Tail(entries))

\* Resplit with the players left split in the middle of the score order: the
\* faulty variant the AUTO-pair property is tested against
Resplit_ByScore ==
    LET remaining == SortByCvsDesc(SelectSeq(selected, LAMBDA p : p.name \notin used_players))
        mid == Len(remaining) \div 2
    IN  [anchors |-> SubSeq(remaining, 1, mid),
         gunners |-> SubSeq(remaining, mid + 1, Len(remaining))]

\* lines 278-288: the players left, split in the middle of the handicap order
Resplit ==
    LET remaining == SortByHi(SelectSeq(selected, LAMBDA p : p.name \notin used_players))
        mid == Len(remaining) \div 2
    IN  [anchors |-> SortByCvsDesc(SubSeq(remaining, 1, mid)),
         gunners |-> SortByCvsDesc(SubSeq(remaining, mid + 1, Len(remaining)))]

\* lines 293-298: the i-th anchor with the i-th gunner
AutoPairs(anchor_list, gunner_list, remaining_pairs) ==
    LET n == Min(remaining_pairs, Min(Len(anchor_list), Len(gunner_list)))
    IN  [i \in 1..n |-> make_pairing(anchor_list[i], gunner_list[i], "AUTO")]

SortByPairCvs(pairs) ==
    LET srt == SortDesc([i \in DOMAIN pairs |-> <<pairs[i].pair_cvs, pairs[i]>>])
    IN  [i \in DOMAIN srt |-> srt[i][2]]

\* lines 301-309: the four best HOME-eligible pairs, the pairs that cannot
\* play HOME, the other HOME-eligible pairs
OrderForLocations(pairs) ==
    LET home_eligible == SortByPairCvs(SelectSeq(pairs, LAMBDA p : p.can_play_home))
        away_only_pairs == SortByPairCvs(SelectSeq(pairs, LAMBDA p : ~p.can_play_home))
    IN  Take(home_eligible, HOME_N) \o away_only_pairs
        \o SubSeq(home_eligible, HOME_N + 1, Len(home_eligible))

\* the rows of outputs/pairings_v3.csv (lines 316-360)
OutputRows(pairs) ==
    [i \in DOMAIN pairs |->
        [Pair |-> i,
         Location |-> IF i <= HOME_N THEN "HOME" ELSE "AWAY",
         Anchor |-> pairs[i].anchor.name,
         Gunner |-> pairs[i].gunner.name,
         constraint |-> pairs[i].constraint]]

\* lines 394-401: the players with data that are in no pair, best first
ReservesV3(pairs) ==
    LET selected_names == {pairs[i].anchor.name : i \in DOMAIN pairs}
                          \cup {pairs[i].gunner.name : i \in DOMAIN pairs}
    IN  SortByCvsDesc(SelectSeq(all_players, LAMBDA p : p.name \notin selected_names))

----------------------------------------------------------------------------
(* generate_pairings_v3.py: the steps of one run                           *)

\* lines 139-149
V3Load ==
    /\ script = "v3" /\ pc = "start"
    /\ all_players' = LoadPlayers
    /\ pc' = "loaded"
    /\ UNCHANGED <<varsUI, varsV1, varsV2, varsV4, script, outcome, commitment_map, hi_map, BENCH_PLAYERS,
                   AWAY_ONLY_PLAYERS, selected, pairings, used_players, warnings,
                   anchors, gunners, rows, reserves>>

\* lines 151-206.  With nobody selected, selected[len(selected) // 2] (line
\* 189) raises IndexError.
V3Select ==
    /\ script = "v3" /\ pc = "loaded"
    /\ selected' = SortByHi(SelectPlayers)
    /\ IF SelectPlayers = <<>>
       THEN /\ outcome' = "IndexError"
            /\ pc' = "done"
            /\ UNCHANGED <<anchors, gunners>>
       ELSE /\ anchors' = MedianSplit(SortByHi(SelectPlayers)).anchors
            /\ gunners' = MedianSplit(SortByHi(SelectPlayers)).gunners
            /\ pc' = "split"
            /\ UNCHANGED outcome
    /\ UNCHANGED <<varsUI, varsV1, varsV2, varsV4, script, commitment_map, hi_map, BENCH_PLAYERS,
                   AWAY_ONLY_PLAYERS, all_players, pairings, used_players, warnings,
                   rows, reserves>>

\* lines 252-275
V3Required ==
    /\ script = "v3" /\ pc = "split"
    /\ LET st == RequiredLoopV3([pairings |-> <<>>, used_players |-> {}, warnings |-> <<>>],
                                REQUIRED_PAIRINGS)
       IN  /\ pairings' = st.pairings
           /\ used_players' = st.used_players
           /\ warnings' = st.warnings
    /\ pc' = "required"
    /\ UNCHANGED <<varsUI, varsV1, varsV2, varsV4, script, outcome, commitment_map, hi_map, BENCH_PLAYERS,
                   AWAY_ONLY_PLAYERS, all_players, selected, anchors, gunners, rows,
                   reserves>>

\* lines 277-298
V3Fill ==
    /\ script = "v3" /\ pc = "required"
    /\ anchors' = Resplit.anchors
    /\ gunners' = Resplit.gunners
    /\ pairings' = pairings \o AutoPairs(Resplit.anchors, Resplit.gunners,
                                         PAIRS_N - Len(pairings))
    /\ pc' = "filled"
    /\ UNCHANGED <<varsUI, varsV1, varsV2, varsV4, script, outcome, commitment_map, hi_map, BENCH_PLAYERS,
                   AWAY_ONLY_PLAYERS, all_players, selected, used_players, warnings,
                   rows, reserves>>

\* lines 300-411
V3Allocate ==
    /\ script = "v3" /\ pc = "filled"
    /\ pairings' = OrderForLocations(pairings)
    /\ rows' = OutputRows(OrderForLocations(pairings))
    /\ reserves' = ReservesV3(pairings)
    /\ outcome' = "completed"
    /\ pc' = "done"
    /\ UNCHANGED <<varsUI, varsV1, varsV2, varsV4, script, commitment_map, hi_map, BENCH_PLAYERS,
                   AWAY_ONLY_PLAYERS, all_players, selected, used_players, warnings,
                   anchors, gunners>>

NextV3 ==
    \/ V3Load
    \/ V3Select
    \/ V3Required
    \/ V3Fill
    \/ V3Allocate

----------------------------------------------------------------------------
(* generate_pairings_v2.py: the data the run works on                      *)
(*                                                                         *)
(* Pairing scores are counted in thousandths and player strengths in      *)
(* hundredths, so that every term of the script's formulas is an integer.  *)

\* "Build top 24", "12 - len(best_pairings)", "PLAY if i <= 8"
TOP_PLAYERS_N == 24
PAIRS_NEEDED == 12
PLAY_N == 8

\* get_player_data (lines 95-150) with use_home_stats False.  The rows of
\* the runs modelled carry a Combined Value Score and no HOME_ column, so
\* that the blend of lines 124-128 is the Combined Value Score itself.
get_player_data_v2(name) ==
    [name |-> name,
     has_score |-> has_analysis_row(name),
     combined_score |-> IF has_analysis_row(name) THEN first_analysis_row(name).cvs ELSE 0,
     commitment |-> commitment_of(name),
     has_matchplay |-> name \in DOMAIN matchplay_map,
     win_pct |-> IF name \in DOMAIN matchplay_map THEN matchplay_map[name].win_pct ELSE 0,
     matches |-> IF name \in DOMAIN matchplay_map THEN matchplay_map[name].matches ELSE 0,
     hi |-> IF name \in DOMAIN hi_map THEN hi_map[name] ELSE DefaultHI]

\* the names of the commitment list with that commitment, in file order
names_with(commitment) ==
    SelectSeq(commitment_names, LAMBDA n : commitment_of(n) = commitment)

\* all_players of lines 173-204: committed, then ad-hoc, then TBC players
LoadPlayersV2 ==
    LET names == names_with("Full") \o names_with("Month-2-month") \o names_with("TBC")
    IN  [i \in DOMAIN names |-> get_player_data_v2(names[i])]

\* ValidPlayers keeping every player: the faulty variant the selection
\* property is tested against
ValidPlayers_KeepAll(players) == players

\* line 207
ValidPlayers(players) == SelectSeq(players, LAMBDA p : p.has_score \/ p.has_matchplay)

\* player_strength (lines 211-215), in hundredths
player_strength(p) ==
    100 * p.combined_score
    + (IF p.has_matchplay /\ p.matches >= 5 THEN 2 * p.win_pct ELSE 0)

\* lines 218-225: the valid players of one commitment, strongest first
TierV2(commitment) ==
    LET tier == SelectSeq(valid_players, LAMBDA p : p.commitment = commitment)
        srt  == SortDesc([i \in DOMAIN tier |-> <<player_strength(tier[i]), tier[i]>>])
    IN  [i \in DOMAIN srt |-> srt[i][2]]

\* lines 232-243
SelectTopPlayers ==
    LET committed_valid == TierV2("Full")
        with_adhoc == committed_valid
                      \o Take(TierV2("Month-2-month"), TOP_PLAYERS_N - Len(committed_valid))
    IN  with_adhoc \o Take(TierV2("TBC"), TOP_PLAYERS_N - Len(with_adhoc))

\* calculate_pairing_score (lines 52-92), in thousandths
calculate_pairing_score(player1, player2) ==
    LET win_pct1 == IF player1.has_matchplay THEN player1.win_pct ELSE 40
        win_pct2 == IF player2.has_matchplay THEN player2.win_pct ELSE 40
        spread == Abs(player1.hi - player2.hi)
    IN  600 * (player1.combined_score + player2.combined_score)
        + 9 * (win_pct1 + win_pct2)
        + 5 * Min(player1.matches + player2.matches, 100)
        + (IF 5 <= spread /\ spread <= 15 THEN 1000
           ELSE IF 3 <= spread /\ spread <= 20 THEN 500
           ELSE 0)

\* find_player (lines 284-288): the position in top_players, 0 for None
find_player_v2(name) == find_player(name, top_players)

\* one pass of the loop over required_pairings (lines 292-303); st holds
\* best_pairings, used_players and warnings
ApplyRequiredV2(st, pairing) ==
    LET i1 == find_player_v2(pairing[1])
        i2 == find_player_v2(pairing[2])
    IN  IF i1 # 0 /\ i2 # 0
        THEN [best_pairings |-> Append(st.best_pairings,
                                       <<top_players[i1], top_players[i2],
                                         calculate_pairing_score(top_players[i1], top_players[i2])>>),
              used_players |-> st.used_players \cup {pairing[1], pairing[2]},
              warnings |-> st.warnings]
        ELSE [best_pairings |-> st.best_pairings,
              used_players |-> st.used_players,
              warnings |-> Append(st.warnings, IF i1 = 0 THEN pairing[1] ELSE pairing[2])]

RECURSIVE RequiredLoopV2(_, _)
RequiredLoopV2(st, entries) ==
    IF entries = <<>> THEN st
    ELSE RequiredLoopV2(ApplyRequiredV2(st, Head(entries)), Tail(entries))

\* lines 275-278
matt_options == << <<"Matt Maritz", "Grant Syme">>, <<"Matt Maritz", "Ian Scott">> >>

\* BestMattPair without the test of used_players: the faulty variant the
\* disjointness property is tested against
RECURSIVE BestMattPair_IgnoreUsed(_, _)
BestMattPair_IgnoreUsed(options, best) ==
    IF options = <<>> THEN best
    ELSE LET i1 == find_player_v2(Head(options)[1])
             i2 == find_player_v2(Head(options)[2])
             score == calculate_pairing_score(top_players[i1], top_players[i2])
         IN  IF i1 # 0 /\ i2 # 0 /\ score > best.score
             THEN BestMattPair_IgnoreUsed(Tail(options),
                               [found |-> TRUE, score |-> score,
                                pair |-> <<top_players[i1], top_players[i2], score>>])
             ELSE BestMattPair_IgnoreUsed(Tail(options), best)

\* the loop of lines 307-316: the best-scored option whose two players are in
\* top_players and not used, the first of them on a tie
RECURSIVE BestMattPair(_, _)
BestMattPair(options, best) ==
    IF options = <<>> THEN best
    ELSE LET i1 == find_player_v2(Head(options)[1])
             i2 == find_player_v2(Head(options)[2])
             usable == /\ i1 # 0 /\ i2 # 0
                       /\ Head(options)[1] \notin used_players
                       /\ Head(options)[2] \notin used_players
             score == calculate_pairing_score(top_players[i1], top_players[i2])
         IN  IF usable /\ score > best.score
             THEN BestMattPair(Tail(options),
                               [found |-> TRUE, score |-> score,
                                pair |-> <<top_players[i1], top_players[i2], score>>])
             ELSE BestMattPair(Tail(options), best)

\* itertools.combinations(s, 2), each pair with its score
RECURSIVE ScoredCombinations(_)
ScoredCombinations(s) ==
    IF Len(s) < 2 THEN <<>>
    ELSE [j \in 1..(Len(s) - 1) |->
             <<s[1], s[j + 1], calculate_pairing_score(s[1], s[j + 1])>>]
         \o ScoredCombinations(Tail(s))

\* lines 335-344 for a given set of used names: all pairs of available
\* players, best score first
PossiblePairs(used) ==
    LET available_players == SelectSeq(top_players, LAMBDA p : p.name \notin used)
        scored == ScoredCombinations(available_players)
        srt == SortDesc([i \in DOMAIN scored |-> <<scored[i][3], scored[i]>>])
    IN  [i \in DOMAIN srt |-> srt[i][2]]

AllPossiblePairs == PossiblePairs(used_players)

NamesIn(pairs) == {pairs[i][1].name : i \in DOMAIN pairs} \cup {pairs[i][2].name : i \in DOMAIN pairs}

\* greedy_balanced (lines 364-393): picks in turn the pair at the first
\* quarter and the pair in the middle of the pairs still possible
RECURSIVE greedy_balanced(_, _, _)
greedy_balanced(pairs_needed, chosen, remaining) ==
    IF Len(chosen) >= pairs_needed \/ remaining = <<>> THEN chosen
    ELSE LET valid == SelectSeq(remaining,
                                LAMBDA q : q[1].name \notin NamesIn(chosen)
                                           /\ q[2].name \notin NamesIn(chosen))
         IN  IF valid = <<>> THEN chosen
             ELSE LET idx == IF Len(chosen) % 2 = 0
                             THEN Min(Len(valid) \div 4, Len(valid) - 1)
                             ELSE Len(valid) \div 2
                      pick == valid[idx + 1]
                      taken == NamesIn(chosen) \cup {pick[1].name, pick[2].name}
                  IN  greedy_balanced(pairs_needed, Append(chosen, pick),
                                      SelectSeq(remaining,
                                                LAMBDA q : q[1].name \notin taken
                                                           /\ q[2].name \notin taken))

\* pure_greedy (lines 399-409): the pairs in order, each taken when neither
\* of its players is taken yet, that is, again and again the first pair of
\* players not yet taken
RECURSIVE pure_greedy(_, _, _)
pure_greedy(pairs_needed, chosen, list) ==
    LET free == SelectSeq(list, LAMBDA q : q[1].name \notin NamesIn(chosen)
                                           /\ q[2].name \notin NamesIn(chosen))
    IN  IF free = <<>> THEN chosen
        ELSE IF Len(chosen) + 1 >= pairs_needed THEN Append(chosen, Head(free))
        ELSE pure_greedy(pairs_needed, Append(chosen, Head(free)), Tail(free))

RECURSIVE SumOver(_, _)
SumOver(s, base) == IF s = <<>> THEN 0 ELSE (Head(s) - base) + SumOver(Tail(s), base)
RECURSIVE SumSquaresOver(_, _)
SumSquaresOver(s, base) ==
    IF s = <<>> THEN 0
    ELSE (Head(s) - base) * (Head(s) - base) + SumSquaresOver(Tail(s), base)
MinOf(s) == CHOOSE x \in Range(s) : \A y \in Range(s) : x <= y

\* evaluate (lines 414-421).  The variance is multiplied by the square of the
\* number of scores and computed on the scores less base, which changes no
\* comparison between two solutions of the same length.
evaluate(sol, pairs_needed, base) ==
    IF Len(sol) < pairs_needed
    THEN [inf |-> TRUE, variance |-> 0, min_score |-> -1000]
    ELSE LET scores == [i \in DOMAIN sol |-> sol[i][3]]
         IN  [inf |-> FALSE,
              variance |-> Len(scores) * SumSquaresOver(scores, base)
                           - SumOver(scores, base) * SumOver(scores, base),
              min_score |-> MinOf(scores)]

\* find_balanced_pairings without the margin of 0.5 between the minimum
\* scores: the faulty variant the comparison property is tested against
find_balanced_pairings_NoMargin(pairs_needed, available_pairs) ==
    LET solution == greedy_balanced(pairs_needed, <<>>, available_pairs)
        greedy_solution == pure_greedy(pairs_needed, <<>>, available_pairs)
        base == IF available_pairs = <<>> THEN 0
                ELSE available_pairs[(Len(available_pairs) + 1) \div 2][3]
        bal == evaluate(solution, pairs_needed, base)
        greedy == evaluate(greedy_solution, pairs_needed, base)
    IN  IF bal.min_score > greedy.min_score THEN solution
        ELSE IF greedy.min_score > bal.min_score THEN greedy_solution
        ELSE IF ~bal.inf /\ (greedy.inf \/ bal.variance < greedy.variance) THEN solution
        ELSE greedy_solution

\* find_balanced_pairings (lines 348-435)
find_balanced_pairings(pairs_needed, available_pairs) ==
    LET solution == greedy_balanced(pairs_needed, <<>>, available_pairs)
        greedy_solution == pure_greedy(pairs_needed, <<>>, available_pairs)
        base == IF available_pairs = <<>> THEN 0
                ELSE available_pairs[(Len(available_pairs) + 1) \div 2][3]
        bal == evaluate(solution, pairs_needed, base)
        greedy == evaluate(greedy_solution, pairs_needed, base)
    IN  IF bal.min_score > greedy.min_score + 500 THEN solution
        ELSE IF greedy.min_score > bal.min_score + 500 THEN greedy_solution
        ELSE IF ~bal.inf /\ (greedy.inf \/ bal.variance < greedy.variance) THEN solution
        ELSE greedy_solution

\* OutputRowsV2 without the sort by score: the faulty variant the status
\* property is tested against
OutputRowsV2_Unsorted(pairs) ==
    [i \in DOMAIN pairs |->
       LET p1 == pairs[i][1]
           p2 == pairs[i][2]
       IN  [Pair |-> i,
            Status |-> IF i <= PLAY_N THEN "PLAY" ELSE "RESERVE",
            PairScore |-> pairs[i][3],
            Anchor |-> IF p1.hi <= p2.hi THEN p1.name ELSE p2.name,
            Gunner |-> IF p1.hi <= p2.hi THEN p2.name ELSE p1.name]]

\* lines 450-492: the pairs by score, the player of lower handicap index as
\* anchor, the first 8 to play.  PairScore is the score in thousandths: the
\* rounding of the binary float to two decimals in the 'Pair Score' column is
\* not modelled
OutputRowsV2(pairs) ==
    LET srt == SortDesc([i \in DOMAIN pairs |-> <<pairs[i][3], pairs[i]>>])
    IN  [i \in DOMAIN srt |->
           LET p1 == srt[i][2][1]
               p2 == srt[i][2][2]
           IN  [Pair |-> i,
                Status |-> IF i <= PLAY_N THEN "PLAY" ELSE "RESERVE",
                PairScore |-> srt[i][2][3],
                Anchor |-> IF p1.hi <= p2.hi THEN p1.name ELSE p2.name,
                Gunner |-> IF p1.hi <= p2.hi THEN p2.name ELSE p1.name]]

----------------------------------------------------------------------------
(* generate_pairings_v2.py: the steps of one run                           *)

\* lines 170-208
V2Load ==
    /\ script = "v2" /\ pc = "start"
    /\ all_players' = LoadPlayersV2
    /\ valid_players' = ValidPlayers(LoadPlayersV2)
    /\ pc' = "loaded"
    /\ UNCHANGED <<varsUI, varsV1, varsV4, script, outcome, commitment_map, hi_map, matchplay_map,
                   top_players, best_pairings, used_players, warnings, rows,
                   BENCH_PLAYERS, AWAY_ONLY_PLAYERS, selected, pairings, anchors,
                   gunners, reserves>>

\* lines 210-260.  With no valid player, the index of line 253 into the
\* empty list of handicap indexes raises IndexError.
V2Select ==
    /\ script = "v2" /\ pc = "loaded"
    /\ top_players' = SelectTopPlayers
    /\ IF SelectTopPlayers = <<>>
       THEN outcome' = "IndexError" /\ pc' = "done"
       ELSE outcome' = outcome /\ pc' = "selected"
    /\ UNCHANGED <<varsUI, varsV1, varsV4, script, commitment_map, hi_map, matchplay_map, all_players,
                   valid_players, best_pairings, used_players, warnings, rows,
                   BENCH_PLAYERS, AWAY_ONLY_PLAYERS, selected, pairings, anchors,
                   gunners, reserves>>

\* lines 280-303
V2Required ==
    /\ script = "v2" /\ pc = "selected"
    /\ LET st == RequiredLoopV2([best_pairings |-> <<>>, used_players |-> {},
                                 warnings |-> <<>>], REQUIRED_PAIRINGS)
       IN  /\ best_pairings' = st.best_pairings
           /\ used_players' = st.used_players
           /\ warnings' = st.warnings
    /\ pc' = "required"
    /\ UNCHANGED <<varsUI, varsV1, varsV4, script, outcome, commitment_map, hi_map, matchplay_map,
                   all_players, valid_players, top_players, rows,
                   BENCH_PLAYERS, AWAY_ONLY_PLAYERS, selected, pairings, anchors,
                   gunners, reserves>>

\* lines 305-325
V2MattConstraint ==
    /\ script = "v2" /\ pc = "required"
    /\ LET best_matt_pair == BestMattPair(matt_options,
                                          [found |-> FALSE, score |-> -1000, pair |-> <<>>])
       IN  IF best_matt_pair.found
           THEN /\ best_pairings' = Append(best_pairings, best_matt_pair.pair)
                /\ used_players' = used_players \cup {best_matt_pair.pair[1].name,
                                                      best_matt_pair.pair[2].name}
                /\ UNCHANGED warnings
           ELSE /\ warnings' = Append(warnings, "Matt Maritz constraint")
                /\ UNCHANGED <<best_pairings, used_players>>
    /\ pc' = "constrained"
    /\ UNCHANGED <<varsUI, varsV1, varsV4, script, outcome, commitment_map, hi_map, matchplay_map,
                   all_players, valid_players, top_players, rows,
                   BENCH_PLAYERS, AWAY_ONLY_PLAYERS, selected, pairings, anchors,
                   gunners, reserves>>

\* lines 327-442
V2Fill ==
    /\ script = "v2" /\ pc = "constrained"
    /\ LET balanced_pairs == find_balanced_pairings(PAIRS_NEEDED - Len(best_pairings),
                                                    AllPossiblePairs)
       IN  /\ best_pairings' = best_pairings \o balanced_pairs
           /\ used_players' = used_players \cup NamesIn(balanced_pairs)
    /\ pc' = "filled"
    /\ UNCHANGED <<varsUI, varsV1, varsV4, script, outcome, commitment_map, hi_map, matchplay_map,
                   all_players, valid_players, top_players, warnings, rows,
                   BENCH_PLAYERS, AWAY_ONLY_PLAYERS, selected, pairings, anchors,
                   gunners, reserves>>

\* lines 444-525.  With no pair at all, the average of line 522 divides by
\* zero.
V2Output ==
    /\ script = "v2" /\ pc = "filled"
    /\ LET srt == SortDesc([i \in DOMAIN best_pairings |->
                               <<best_pairings[i][3], best_pairings[i]>>])
       IN  best_pairings' = [i \in DOMAIN srt |-> srt[i][2]]
    /\ rows' = OutputRowsV2(best_pairings)
    /\ outcome' = IF best_pairings = <<>> THEN "ZeroDivisionError" ELSE "completed"
    /\ pc' = "done"
    /\ UNCHANGED <<varsUI, varsV1, varsV4, script, commitment_map, hi_map, matchplay_map,
                   all_players, valid_players, top_players, used_players, warnings,
                   BENCH_PLAYERS, AWAY_ONLY_PLAYERS, selected, pairings, anchors,
                   gunners, reserves>>

NextV2 ==
    \/ V2Load
    \/ V2Select
    \/ V2Required
    \/ V2MattConstraint
    \/ V2Fill
    \/ V2Output

----------------------------------------------------------------------------
(* generate_pairings_v2.py: the inputs of a run                            *)

InputV2(d, commitments, hi, mp, req) ==
    [df |-> d, commitment_map |-> commitments, hi_map |-> hi, matchplay_map |-> mp,
     REQUIRED_PAIRINGS |-> req]

\* a row of the analysis table
ScoreRow(name, cvs) ==
    [name |-> name, Role |-> "Wildcard", has_cvs |-> TRUE, cvs |-> cvs, rounds |-> 10,
     home_pct |-> 50]

\* Small rosters.  Every player of the list is committed, to be confirmed, in
\* the list with an empty commitment cell ("nan"), or committed but without
\* an analysis row.
ClubNames == <<"Greg Park", "Hugo Lamprecht", "Grant Syme", "Ian Scott", "Matt Maritz">>
ClubKinds == {"Full", "TBC", "nan", "no data"}
ClubCommitments(kind) ==
    [i \in DOMAIN ClubNames |->
        <<ClubNames[i], IF kind[i] = "no data" THEN "Full" ELSE kind[i]>>]
ClubRows(kind) ==
    LET present == SelectSeq([i \in DOMAIN ClubNames |-> i], LAMBDA i : kind[i] # "no data")
    IN  [k \in DOMAIN present |-> ScoreRow(ClubNames[present[k]], 10 - present[k])]
ClubHi ==
    [n \in {"Greg Park", "Hugo Lamprecht", "Ian Scott"} |->
        CASE n = "Greg Park" -> 20 [] n = "Hugo Lamprecht" -> 5 [] OTHER -> 12]
ClubMatchplay ==
    [n \in {"Hugo Lamprecht", "Grant Syme", "Matt Maritz"} |->
        CASE n = "Hugo Lamprecht" -> [win_pct |-> 60, matches |-> 10]
          [] n = "Grant Syme" -> [win_pct |-> 50, matches |-> 4]
          [] OTHER -> [win_pct |-> 30, matches |-> 6]]
ClubInputsV2 ==
    {InputV2(ClubRows(kind), ClubCommitments(kind), hi, mp, req) :
        kind \in [DOMAIN ClubNames -> ClubKinds],
        hi \in {NoChData, ClubHi},
        mp \in {NoChData, ClubMatchplay},
        req \in {ShippedRequired,
                  << <<"Greg Park", "Hugo Lamprecht">>, <<"Ian Scott", "Matt Maritz">> >>}}

\* Full rosters: twenty-two committed players ahead of four players of the
\* fixed pairings, who are committed, monthly or to be confirmed.
Members ==
    <<"Member 01", "Member 02", "Member 03", "Member 04", "Member 05", "Member 06",
      "Member 07", "Member 08", "Member 09", "Member 10", "Member 11", "Member 12",
      "Member 13", "Member 14", "Member 15", "Member 16", "Member 17", "Member 18",
      "Member 19", "Member 20", "Member 21", "Member 22">>
LateNames == <<"Greg Park", "Hugo Lamprecht", "Ian Scott", "Matt Maritz">>
LateKinds == {"Full", "Month-2-month", "TBC"}
MemberCommitments(kind) ==
    [i \in DOMAIN Members |-> <<Members[i], "Full">>]
    \o [i \in DOMAIN LateNames |-> <<LateNames[i], kind[i]>>]
MemberRows ==
    [i \in DOMAIN Members |-> ScoreRow(Members[i], 5 + (i % 2))]
    \o [i \in DOMAIN LateNames |-> ScoreRow(LateNames[i], 5 - i)]
MemberHi ==
    [n \in Range(Members) |-> 2 * (CHOOSE i \in DOMAIN Members : Members[i] = n)]
MemberMatchplay ==
    [n \in {Members[i] : i \in 1..6} |->
        [win_pct |-> 10 * (CHOOSE i \in DOMAIN Members : Members[i] = n),
         matches |-> 3 * (CHOOSE i \in DOMAIN Members : Members[i] = n)]]
MemberInputsV2 ==
    {InputV2(MemberRows, MemberCommitments(kind), hi, mp, ShippedRequired) :
        kind \in [DOMAIN LateNames -> LateKinds],
        hi \in {NoChData, MemberHi},
        mp \in {NoChData, MemberMatchplay}}

V2Inputs == ClubInputsV2 \cup MemberInputsV2

InitV2 ==
    /\ script = "v2" /\ pc = "start" /\ outcome = "running"
    /\ \E inp \in V2Inputs :
         /\ df = inp.df
         /\ commitment_map = inp.commitment_map
         /\ hi_map = inp.hi_map
         /\ matchplay_map = inp.matchplay_map
         /\ REQUIRED_PAIRINGS = inp.REQUIRED_PAIRINGS
    /\ ch_lookup = NoChData /\ EITHER_OR_PAIRINGS = <<>>
    /\ EXCLUSIONS = NoExclusions /\ MIN_CH_DIFF = 0
    /\ BENCH_PLAYERS = {} /\ AWAY_ONLY_PLAYERS = {}
    /\ valid_players = <<>> /\ top_players = <<>> /\ best_pairings = <<>>
    /\ IdleV1
    /\ IdleV3
    /\ IdleV4
    /\ IdleUI

SpecV2 == InitV2 /\ [][NextV2]_vars

----------------------------------------------------------------------------
(* generate_pairings_v3.py: the inputs of a run                            *)

\* the constraints as the script ships them (lines 22-39)
ShippedBench == {"Werner van Loggerenburg"}
ShippedRequiredV3 ==
    << <<"Greg Park", "Hugo Lamprecht">>, <<"Jacques vd Berg", "Brandon Bester">>,
       <<"Ian Scott", "Matt Maritz">> >>

\* a row of the analysis table with its rounds and home percentage
HomeRow(name, cvs, total_rounds, home_pct) ==
    [name |-> name, Role |-> "Wildcard", has_cvs |-> TRUE, cvs |-> cvs,
     rounds |-> total_rounds, home_pct |-> home_pct]

InputV3(d, commitments, hi, req, bench, away) ==
    [df |-> d, commitment_map |-> commitments, hi_map |-> hi, REQUIRED_PAIRINGS |-> req,
     BENCH_PLAYERS |-> bench, AWAY_ONLY_PLAYERS |-> away]

\* Small rosters.  Every player of the list is committed, monthly, to be
\* confirmed, in the list with an empty commitment cell ("nan"), or committed
\* but without an analysis row.  Matt Maritz has played 4.5 of his 10 rounds
\* at home by the table's percentage.
SmallNames == <<"Greg Park", "Hugo Lamprecht", "Ian Scott", "Matt Maritz">>
SmallKinds == {"Full", "Month-2-month", "TBC", "nan", "no data"}
SmallCommitments(kind) ==
    [i \in DOMAIN SmallNames |->
        <<SmallNames[i], IF kind[i] = "no data" THEN "Full" ELSE kind[i]>>]
SmallRows(kind) ==
    LET present == SelectSeq([i \in DOMAIN SmallNames |-> i], LAMBDA i : kind[i] # "no data")
    IN  [k \in DOMAIN present |->
           HomeRow(SmallNames[present[k]], 10 - present[k], 10,
                   IF SmallNames[present[k]] = "Matt Maritz" THEN 45 ELSE 50)]
SmallHi ==
    [n \in {"Greg Park", "Hugo Lamprecht", "Ian Scott"} |->
        CASE n = "Greg Park" -> 20 [] n = "Hugo Lamprecht" -> 5 [] OTHER -> 15]
SmallInputsV3 ==
    {InputV3(SmallRows(kind), SmallCommitments(kind), hi, req, bench, away) :
        kind \in [DOMAIN SmallNames -> SmallKinds],
        hi \in {NoChData, SmallHi},
        req \in {<<>>, ShippedRequiredV3, << <<"Greg Park", "Hugo Lamprecht">> >>},
        bench \in {ShippedBench, {"Hugo Lamprecht"}},
        away \in {ShippedBench, {"Ian Scott"}}}

\* Full rosters: sixteen committed players with better scores ahead of the
\* players of the small rosters, who are committed, monthly or to be confirmed.
FullKinds == {"Full", "Month-2-month", "TBC"}
FullFillers == FillerAnchors \o Take(FillerGunners, SELECT_N - Len(FillerAnchors))
FullCommitments(kind) ==
    [i \in DOMAIN FullFillers |-> <<FullFillers[i], "Full">>]
    \o [i \in DOMAIN SmallNames |-> <<SmallNames[i], kind[i]>>]
FullRows ==
    [i \in DOMAIN FullFillers |-> HomeRow(FullFillers[i], 30 - i, 10, 50)]
    \o [i \in DOMAIN SmallNames |-> HomeRow(SmallNames[i], 10 - i, 10, 50)]
FullHi == [n \in Range(FillerAnchors) |-> 5]
FullInputsV3 ==
    {InputV3(FullRows, FullCommitments(kind), hi, req, ShippedBench, ShippedBench) :
        kind \in [DOMAIN SmallNames -> FullKinds],
        hi \in {NoChData, FullHi, SmallHi},
        req \in {ShippedRequiredV3, << <<"Greg Park", "Hugo Lamprecht">> >>}}

\* Mixed rosters: thirteen of the sixteen committed players ahead of the
\* players of the small rosters, so that three places are left for four
\* players who are committed, monthly or to be confirmed.
MixedFillers == Take(FullFillers, 13)
MixedCommitments(kind) ==
    [i \in DOMAIN MixedFillers |-> <<MixedFillers[i], "Full">>]
    \o [i \in DOMAIN SmallNames |-> <<SmallNames[i], kind[i]>>]
MixedRows(all_rows) ==
    SelectSeq(all_rows, LAMBDA r : r.name \in Range(MixedFillers) \cup Range(SmallNames))
MixedInputsV3 ==
    {InputV3(MixedRows(FullRows), MixedCommitments(kind), hi, ShippedRequiredV3,
             ShippedBench, ShippedBench) :
        kind \in [DOMAIN SmallNames -> FullKinds],
        hi \in {NoChData, SmallHi}}

V3Inputs == SmallInputsV3 \cup FullInputsV3 \cup MixedInputsV3

InitV3 ==
    /\ script = "v3" /\ pc = "start" /\ outcome = "running"
    /\ \E inp \in V3Inputs :
         /\ df = inp.df
         /\ commitment_map = inp.commitment_map
         /\ hi_map = inp.hi_map
         /\ REQUIRED_PAIRINGS = inp.REQUIRED_PAIRINGS
         /\ BENCH_PLAYERS = inp.BENCH_PLAYERS
         /\ AWAY_ONLY_PLAYERS = inp.AWAY_ONLY_PLAYERS
    /\ ch_lookup = NoChData /\ EITHER_OR_PAIRINGS = <<>>
    /\ EXCLUSIONS = NoExclusions /\ MIN_CH_DIFF = 0
    /\ IdleV1
    /\ IdleV2
    /\ IdleV3
    /\ IdleV4
    /\ IdleUI

SpecV3 == InitV3 /\ [][NextV3]_vars

\* a run of any of the three scripts
SpecGen == (InitV1 \/ InitV2 \/ InitV3) /\ [][NextV1 \/ NextV2 \/ NextV3]_vars

----------------------------------------------------------------------------
(* generate_pairings_v4.py: the run                                        *)
(*                                                                         *)
(* The script reads the same files as generate_pairings_v3.py and shares   *)
(* its constants (lines 22-33: the bench, the AWAY-only players,           *)
(* MIN_HOME_ROUNDS, the default handicap index 15, 16 players, 4 HOME      *)
(* pairs); REQUIRED_PAIRINGS is empty and never read.  The selection of    *)
(* lines 155-183 and the ordering of lines 323-331 are word for word those *)
(* of generate_pairings_v3.py, so Tier, SelectPlayers, OrderForLocations   *)
(* and ReservesV3 stand for both scripts.  The rows of the runs modelled   *)
(* carry a Combined Value Score and a Consistency Score.                   *)

\* get_player_data (lines 75-124) for a player with an analysis row
get_player_data_v4(name) ==
    LET row == first_analysis_row(name)
        home_rounds == IF row.home_pct > 0
                       THEN RoundHalfEven(row.rounds * row.home_pct, 100)
                       ELSE 0
    IN  [name |-> name,
         cvs |-> row.cvs,
         consistency_score |-> row.consistency,
         total_rounds |-> row.rounds,
         home_rounds |-> home_rounds,
         commitment |-> commitment_of(name),
         hi |-> IF name \in DOMAIN hi_map THEN hi_map[name] ELSE DefaultHI,
         can_play_home |-> name \notin AWAY_ONLY_PLAYERS /\ home_rounds >= MIN_HOME_ROUNDS,
         is_wildcard |-> IF row.consistency # 0 THEN row.consistency < 6 ELSE FALSE]

\* lines 146-153: the players of the commitment list that have an analysis
\* row, best score first
LoadPlayersV4 ==
    LET with_data == SelectSeq(commitment_names, has_analysis_row)
    IN  SortByCvsDesc([i \in DOMAIN with_data |-> get_player_data_v4(with_data[i])])

\* "top_anchors = anchors[:4]" (line 200)
TOP_ANCHORS_N == 4

\* make_pairing (lines 252-265)
make_pairing_v4(anchor, partner, pairing_type) ==
    [anchor |-> anchor,
     gunner |-> partner,
     pair_cvs |-> anchor.cvs + partner.cvs,
     hi_spread |-> Abs(anchor.hi - partner.hi),
     committed_count |-> (IF anchor.commitment = "Full" THEN 1 ELSE 0)
                         + (IF partner.commitment = "Full" THEN 1 ELSE 0),
     can_play_home |-> anchor.can_play_home /\ partner.can_play_home,
     pairing_type |-> pairing_type]

\* the loops of lines 281-284 and 288-291: the first player of the list whose
\* name is not in used_players, <<>> for None
RECURSIVE FirstUnused(_, _)
FirstUnused(player_list, used) ==
    IF player_list = <<>> THEN <<>>
    ELSE IF Head(player_list).name \notin used
         THEN <<Head(player_list)>>
         ELSE FirstUnused(Tail(player_list), used)

\* best_partner without the preferred list: the faulty variant the order of
\* the partners is tested against
best_partner_AnyHigh(preferred, used) == FirstUnused(all_high_hi, used)

\* best_partner of lines 280-291 and 303-314: the first unused player of the
\* preferred list, else the first unused player of all_high_hi
best_partner(preferred, used) ==
    IF FirstUnused(preferred, used) # <<>>
    THEN FirstUnused(preferred, used)
    ELSE FirstUnused(all_high_hi, used)

\* the loops of lines 278-298 and 301-321 over the anchors of anchor_list;
\* st is [pairings, used_players]
RECURSIVE PairAnchors(_, _, _, _)
PairAnchors(st, anchor_list, preferred, pairing_type) ==
    IF anchor_list = <<>> THEN st
    ELSE LET anchor == Head(anchor_list)
             found  == best_partner(preferred, st.used_players)
             next   == IF found # <<>>
                       THEN [pairings |-> Append(st.pairings,
                                                 make_pairing_v4(anchor, found[1], pairing_type)),
                             used_players |-> st.used_players \cup {anchor.name, found[1].name}]
                       ELSE st
         IN  PairAnchors(next, Tail(anchor_list), preferred, pairing_type)

\* the rows of outputs/pairings_v4.csv (lines 338-379)
OutputRowsV4(pairs) ==
    [i \in DOMAIN pairs |->
        [Pair |-> i,
         Location |-> IF i <= HOME_N THEN "HOME" ELSE "AWAY",
         PairingType |-> pairs[i].pairing_type,
         Anchor |-> pairs[i].anchor.name,
         Partner |-> pairs[i].gunner.name]]

\* lines 143-153
V4Load ==
    /\ script = "v4" /\ pc = "start"
    /\ all_players' = LoadPlayersV4
    /\ pc' = "loaded"
    /\ UNCHANGED <<varsUI, varsV1, varsV2, varsV4, script, outcome, commitment_map, hi_map,
                   BENCH_PLAYERS, AWAY_ONLY_PLAYERS, selected, pairings, used_players,
                   warnings, anchors, gunners, rows, reserves>>

\* lines 155-192: the selection, sorted by handicap index
V4Select ==
    /\ script = "v4" /\ pc = "loaded"
    /\ selected' = SortByHi(SelectPlayers)
    /\ pc' = "selected"
    /\ UNCHANGED <<varsUI, varsV1, varsV2, varsV4, script, outcome, commitment_map, hi_map,
                   BENCH_PLAYERS, AWAY_ONLY_PLAYERS, all_players, pairings, used_players,
                   warnings, anchors, gunners, rows, reserves>>

\* lines 193-249: the lower half by handicap index are the anchors, split by
\* score into the top four and the others; the upper half is split by
\* consistency into gunners and wildcards
V4Classify ==
    /\ script = "v4" /\ pc = "selected"
    /\ LET mid == Len(selected) \div 2
           low == SortByCvsDesc(SubSeq(selected, 1, mid))
           high == SubSeq(selected, mid + 1, Len(selected))
           consistent == SortByCvsDesc(SelectSeq(high, LAMBDA p : ~p.is_wildcard))
           inconsistent == SortByCvsDesc(SelectSeq(high, LAMBDA p : p.is_wildcard))
       IN  /\ anchors' = low
           /\ high_hi_players' = high
           /\ top_anchors_v4' = Take(low, TOP_ANCHORS_N)
           /\ mid_anchors' = SubSeq(low, TOP_ANCHORS_N + 1, Len(low))
           /\ gunners' = consistent
           /\ wildcards' = inconsistent
           /\ all_high_hi' = SortByCvsDesc(consistent \o inconsistent)
    /\ pc' = "classified"
    /\ UNCHANGED <<varsUI, varsV1, varsV2, script, outcome, commitment_map, hi_map,
                   BENCH_PLAYERS, AWAY_ONLY_PLAYERS, all_players, selected, pairings,
                   used_players, warnings, rows, reserves>>

\* lines 267-298: every top anchor takes a partner
V4PairTop ==
    /\ script = "v4" /\ pc = "classified"
    /\ LET st == PairAnchors([pairings |-> <<>>, used_players |-> {}],
                             top_anchors_v4, wildcards, "TOP+WILDCARD")
       IN  /\ pairings' = st.pairings
           /\ used_players' = st.used_players
    /\ pc' = "top paired"
    /\ UNCHANGED <<varsUI, varsV1, varsV2, varsV4, script, outcome, commitment_map, hi_map,
                   BENCH_PLAYERS, AWAY_ONLY_PLAYERS, all_players, selected,
                   warnings, anchors, gunners, rows, reserves>>

\* lines 300-321: every other anchor takes a partner
V4PairMid ==
    /\ script = "v4" /\ pc = "top paired"
    /\ LET st == PairAnchors([pairings |-> pairings, used_players |-> used_players],
                             mid_anchors, gunners, "MID+GUNNER")
       IN  /\ pairings' = st.pairings
           /\ used_players' = st.used_players
    /\ pc' = "filled"
    /\ UNCHANGED <<varsUI, varsV1, varsV2, varsV4, script, outcome, commitment_map, hi_map,
                   BENCH_PLAYERS, AWAY_ONLY_PLAYERS, all_players, selected,
                   warnings, anchors, gunners, rows, reserves>>

\* lines 323-433
V4Allocate ==
    /\ script = "v4" /\ pc = "filled"
    /\ pairings' = OrderForLocations(pairings)
    /\ rows' = OutputRowsV4(OrderForLocations(pairings))
    /\ reserves' = ReservesV3(pairings)
    /\ outcome' = "completed"
    /\ pc' = "done"
    /\ UNCHANGED <<varsUI, varsV1, varsV2, varsV4, script, commitment_map, hi_map,
                   BENCH_PLAYERS, AWAY_ONLY_PLAYERS, all_players, selected, used_players,
                   warnings, anchors, gunners>>

NextV4 ==
    \/ V4Load
    \/ V4Select
    \/ V4Classify
    \/ V4PairTop
    \/ V4PairMid
    \/ V4Allocate

\* a row of the analysis table with its Consistency Score
ConsistencyRow(name, cvs, total_rounds, home_pct, consistency) ==
    [name |-> name, Role |-> "Wildcard", has_cvs |-> TRUE, cvs |-> cvs,
     rounds |-> total_rounds, home_pct |-> home_pct, consistency |-> consistency]

\* Small rosters: the players of the small rosters of generate_pairings_v3.py.
\* The Consistency Scores are 8 throughout, or 0, 3, 6 and 9.
SmallConsistency == {[i \in DOMAIN SmallNames |-> 8], [i \in DOMAIN SmallNames |-> 3 * i - 3]}
SmallRowsV4(kind, cons) ==
    LET present == SelectSeq([i \in DOMAIN SmallNames |-> i], LAMBDA i : kind[i] # "no data")
    IN  [k \in DOMAIN present |->
           ConsistencyRow(SmallNames[present[k]], 10 - present[k], 10,
                          IF SmallNames[present[k]] = "Matt Maritz" THEN 45 ELSE 50,
                          cons[present[k]])]
SmallInputsV4 ==
    {InputV3(SmallRowsV4(kind, cons), SmallCommitments(kind), hi, <<>>, bench, away) :
        kind \in [DOMAIN SmallNames -> SmallKinds],
        cons \in SmallConsistency,
        hi \in {NoChData, SmallHi},
        bench \in {ShippedBench, {"Hugo Lamprecht"}},
        away \in {ShippedBench, {"Ian Scott"}}}

\* Full rosters: the sixteen committed players of the full rosters of
\* generate_pairings_v3.py ahead of the players of the small rosters, who are
\* committed, monthly or to be confirmed: up to twenty committed players.
\* The Consistency Scores of the sixteen run through 0, 4 and 8.
FullRowsV4 ==
    [i \in DOMAIN FullFillers |->
        ConsistencyRow(FullFillers[i], 30 - i, 10, 50, 4 * (i % 3))]
    \o [i \in DOMAIN SmallNames |->
        ConsistencyRow(SmallNames[i], 10 - i, 10, IF i = 4 THEN 45 ELSE 50, 3 * i - 3)]
FullInputsV4 ==
    {InputV3(FullRowsV4, FullCommitments(kind), hi, <<>>, ShippedBench, away) :
        kind \in [DOMAIN SmallNames -> FullKinds],
        hi \in {NoChData, FullHi, SmallHi},
        away \in {ShippedBench, {"Ian Scott"}}}

\* Mixed rosters, as for generate_pairings_v3.py
MixedInputsV4 ==
    {InputV3(MixedRows(FullRowsV4), MixedCommitments(kind), hi, <<>>, ShippedBench, away) :
        kind \in [DOMAIN SmallNames -> FullKinds],
        hi \in {NoChData, SmallHi},
        away \in {ShippedBench, {"Ian Scott"}}}

V4Inputs == SmallInputsV4 \cup FullInputsV4 \cup MixedInputsV4

InitV4 ==
    /\ script = "v4" /\ pc = "start" /\ outcome = "running"
    /\ \E inp \in V4Inputs :
         /\ df = inp.df
         /\ commitment_map = inp.commitment_map
         /\ hi_map = inp.hi_map
         /\ REQUIRED_PAIRINGS = inp.REQUIRED_PAIRINGS
         /\ BENCH_PLAYERS = inp.BENCH_PLAYERS
         /\ AWAY_ONLY_PLAYERS = inp.AWAY_ONLY_PLAYERS
    /\ ch_lookup = NoChData /\ EITHER_OR_PAIRINGS = <<>>
    /\ EXCLUSIONS = NoExclusions /\ MIN_CH_DIFF = 0
    /\ IdleV1
    /\ IdleV2
    /\ IdleV3
    /\ IdleV4
    /\ IdleUI

SpecV4 == InitV4 /\ [][NextV4]_vars

\* a run of generate_pairings_v2.py, generate_pairings_v3.py or
\* generate_pairings_v4.py
SpecPools == (InitV2 \/ InitV3 \/ InitV4) /\ [][NextV2 \/ NextV3 \/ NextV4]_vars

----------------------------------------------------------------------------

(* generate_pairings.py: properties                                        *)

\* the largest pool for which the properties below enumerate every
\* assignment
MaxMatch == 4

V1Searched == script = "v1" /\ pc \in {"searched", "assigned", "done"}
V1Done == script = "v1" /\ pc = "done"

SmallPools == Len(remaining_anchors) <= MaxMatch /\ Len(remaining_gunners) <= MaxMatch

\* how often the player is a member of an output pair
Occurrences(name) ==
    Cardinality({i \in DOMAIN all_pairs : all_pairs[i].anchor = name})
    + Cardinality({i \in DOMAIN all_pairs : all_pairs[i].gunner = name})

PairedNames == {all_pairs[i].anchor : i \in DOMAIN all_pairs}
               \cup {all_pairs[i].gunner : i \in DOMAIN all_pairs}

InjectiveSeqs(n, N) ==
    {q \in [1..n -> 1..N] : \A i, j \in 1..n : i # j => q[i] # q[j]}

\* the position sequences the permutation loop distinguishes
EnumeratedPositions ==
    InjectiveSeqs(Min(Len(remaining_anchors), Len(remaining_gunners)), Len(remaining_gunners))

Feasible(pairs) == \A i \in DOMAIN pairs : is_valid_pairing(pairs[i][1], pairs[i][2])

\* every one-to-one assignment of min(m, k) pairs between the two remaining
\* pools
AllAssignments ==
    IF Len(remaining_anchors) <= Len(remaining_gunners)
    THEN {PairsOf(remaining_anchors, remaining_gunners, q) : q \in EnumeratedPositions}
    ELSE {[j \in DOMAIN remaining_gunners |-> <<remaining_anchors[q[j]], remaining_gunners[j]>>] :
              q \in InjectiveSeqs(Len(remaining_gunners), Len(remaining_anchors))}

RECURSIVE TotalSpread(_)
TotalSpread(pairs) ==
    IF pairs = <<>> THEN 0
    ELSE get_ch_diff(Head(pairs)[1], Head(pairs)[2]) + TotalSpread(Tail(pairs))

PositionIn(s, x) == CHOOSE i \in DOMAIN s : s[i] = x

\* the positions in remaining_gunners of the gunners of best_assignment
BestPositions ==
    [i \in DOMAIN best_assignment |-> PositionIn(remaining_gunners, best_assignment[i][2])]

\* p comes no later than q in lexicographic order
LexLeq(p, q) ==
    \/ p = q
    \/ \E i \in DOMAIN p : p[i] < q[i] /\ \A j \in 1..(i - 1) : p[j] = q[j]

ChLoaded == DOMAIN ch_lookup # {}

\* C1: in v1 no player name occurs in more than one of the final pairs.
C1_NoPlayerTwice ==
    V1Done => \A n \in PairedNames : Occurrences(n) <= 1

\* C2: in v1 every required pairing (a, b) with two valid members is output
\* as the pair anchor a, gunner b tagged REQUIRED.
C2_RequiredPairOutput ==
    V1Done =>
        \A i \in DOMAIN REQUIRED_PAIRINGS :
            (REQUIRED_PAIRINGS[i][1] \in valid_names /\ REQUIRED_PAIRINGS[i][2] \in valid_names)
            => \E j \in DOMAIN all_pairs :
                  /\ all_pairs[j].anchor = REQUIRED_PAIRINGS[i][1]
                  /\ all_pairs[j].gunner = REQUIRED_PAIRINGS[i][2]
                  /\ all_pairs[j].constraint = "REQUIRED"

\* a run ended with a required pair whose anchor member has the Gunner role
\* and whose gunner member the Anchor role, and with a better-scored partner
\* left to the optimizer
C2_Witness ==
    /\ V1Done /\ outcome = "completed"
    /\ \E i \in DOMAIN REQUIRED_PAIRINGS :
         LET a == REQUIRED_PAIRINGS[i][1]
             b == REQUIRED_PAIRINGS[i][2]
         IN  /\ a \in valid_names /\ b \in valid_names
             /\ RowOf(a).Role = "Gunner" /\ RowOf(b).Role = "Anchor"
             /\ \E j \in DOMAIN all_pairs :
                  /\ all_pairs[j].anchor = a /\ all_pairs[j].gunner = b
                  /\ all_pairs[j].constraint = "REQUIRED"
             /\ \E c \in valid_names \ {a, b} :
                  /\ RowOf(c).cvs > RowOf(a).cvs
                  /\ \E j \in DOMAIN all_pairs :
                       all_pairs[j].constraint = "AUTO" /\ all_pairs[j].gunner = c

\* C5: in v1 no output pair holds a player with an exclusion list together
\* with a member of that list, whichever of the two is the anchor.
C5_NoExcludedPair ==
    V1Done =>
        \A j \in DOMAIN all_pairs : \A a \in DOMAIN EXCLUSIONS : \A b \in EXCLUSIONS[a] :
            {all_pairs[j].anchor, all_pairs[j].gunner} # {a, b}

\* C6 as claimed: with a threshold above 0 and handicap data loaded, every
\* output pair has a handicap difference of at least the threshold.
C6_EveryPairMinChDiff ==
    (V1Done /\ MIN_CH_DIFF > 0 /\ ChLoaded) =>
        \A j \in DOMAIN all_pairs : all_pairs[j].ch_diff >= MIN_CH_DIFF

\* C6 as amended: with a threshold above 0 and handicap data loaded, every
\* AUTO pair that comes from the permutation search has a handicap difference
\* of at least the threshold (the fixed pairs and the pairs of the greedy
\* fallback are not tested against it).
C6_SearchPairsMinChDiff ==
    (V1Done /\ MIN_CH_DIFF > 0 /\ ChLoaded /\ ~used_fallback) =>
        \A j \in DOMAIN all_pairs :
            all_pairs[j].constraint = "AUTO" => all_pairs[j].ch_diff >= MIN_CH_DIFF

\* the search paired players although some anchor-gunner combination of the
\* remaining pools is closer than the threshold
C6_Witness ==
    /\ V1Done /\ MIN_CH_DIFF > 0 /\ ChLoaded /\ ~used_fallback
    /\ \E j \in DOMAIN all_pairs : all_pairs[j].constraint = "AUTO"
    /\ \E a \in Range(remaining_anchors) : \E g \in Range(remaining_gunners) :
         get_ch_diff(a, g) < MIN_CH_DIFF

\* C7: whenever some one-to-one assignment of min(m, k) pairs between the
\* remaining pools is valid on all its pairs, the permutation search returns a
\* valid assignment of the highest total score among all of them.
C7_SearchFindsOptimum ==
    (V1Searched /\ SmallPools) =>
        LET feasible == {a \in AllAssignments : Feasible(a)}
        IN  feasible # {} =>
              /\ search_found
              /\ Feasible(best_assignment)
              /\ \A a \in feasible : TotalScore(a) <= TotalScore(best_assignment)

\* C8 as claimed: among the valid assignments of the highest total score the
\* one returned has the smallest total handicap spread.
C8_TieBySmallestSpread ==
    (V1Searched /\ SmallPools /\ search_found) =>
        \A q \in EnumeratedPositions :
            LET other == PairsOf(remaining_anchors, remaining_gunners, q)
            IN  (Feasible(other) /\ TotalScore(other) = TotalScore(best_assignment))
                => TotalSpread(best_assignment) <= TotalSpread(other)

\* C8 as amended: the assignment returned has the highest total score of the
\* valid assignments the loop enumerates, and among those of that score it
\* is the first the loop meets: the lexicographically first sequence of
\* gunner positions.  Handicap spread and names play no part.
C8_TieByEnumerationOrder ==
    (V1Searched /\ SmallPools /\ search_found) =>
        \A q \in EnumeratedPositions :
            LET other == PairsOf(remaining_anchors, remaining_gunners, q)
            IN  Feasible(other) =>
                  /\ TotalScore(other) <= TotalScore(best_assignment)
                  /\ TotalScore(other) = TotalScore(best_assignment)
                       => LexLeq(BestPositions, q)

\* the search returned an assignment although another valid one of the same
\* total score has a smaller total handicap spread
C8_Witness ==
    /\ V1Searched /\ SmallPools /\ search_found
    /\ \E q \in EnumeratedPositions :
         LET other == PairsOf(remaining_anchors, remaining_gunners, q)
         IN  /\ Feasible(other)
             /\ TotalScore(other) = TotalScore(best_assignment)
             /\ TotalSpread(other) < TotalSpread(best_assignment)

\* the run was given exactly Scenario A
IsScenarioA ==
    /\ df = ScenarioRoster /\ ch_lookup = ScenarioCh
    /\ REQUIRED_PAIRINGS = <<>> /\ EITHER_OR_PAIRINGS = <<>>
    /\ DOMAIN EXCLUSIONS = {} /\ MIN_CH_DIFF = 0

\* C9: in Scenario A the pools are [A1, A2] and [B1, B2] and the exact search
\* returns the pairing {A1,B1}, {A2,B2}.
C9_ScenarioA ==
    (V1Searched /\ IsScenarioA) =>
        /\ remaining_anchors = <<"A1", "A2">>
        /\ remaining_gunners = <<"B1", "B2">>
        /\ search_found
        /\ Range(best_assignment) = {<<"A1", "B1">>, <<"A2", "B2">>}

\* Scenario A ran to its end with the two pairs in the output
C9_Witness ==
    /\ V1Done /\ IsScenarioA /\ outcome = "completed" /\ ~used_fallback
    /\ {<<all_pairs[j].anchor, all_pairs[j].gunner>> : j \in DOMAIN all_pairs}
         = {<<"A1", "B1">>, <<"A2", "B2">>}

\* C10 as claimed: the permutation loop is not entered when the smaller
\* remaining pool has more than 8 members, and no remaining pool handed to
\* the search has more than 8 members.
C10_SearchGuarded ==
    V1Searched =>
        /\ Min(Len(remaining_anchors), Len(remaining_gunners)) > TOP_N
              => perms_enumerated = 0
        /\ Len(remaining_anchors) <= TOP_N
        /\ Len(remaining_gunners) <= TOP_N

\* C10 as amended: there is no size check.  The loop always runs over all k!
\* permutations of the k remaining gunners; the pools are cut to 8 before the
\* required players are appended, so a remaining pool has at most 8 members
\* plus the required players.
C10_PoolsCutBeforeAppend ==
    V1Searched =>
        /\ perms_enumerated = Factorial(Len(remaining_gunners))
        /\ Len(remaining_anchors) <= TOP_N + Cardinality(all_required_players \cap valid_names)
        /\ Len(remaining_gunners) <= TOP_N + Cardinality(all_required_players \cap valid_names)

\* the loop ran over the permutations of more than 8 remaining gunners
C10_Witness ==
    /\ V1Searched
    /\ Len(remaining_gunners) > TOP_N
    /\ perms_enumerated > Factorial(TOP_N)

----------------------------------------------------------------------------
(* generate_pairings_v3.py and all three scripts: properties               *)

V3Done == script = "v3" /\ pc = "done"

\* the player is in the commitment list and has an analysis row
InRosterWithScore(name) == name \in Range(commitment_names) /\ has_analysis_row(name)

selected_names_v3 == {selected[i].name : i \in DOMAIN selected}

\* the output of the v3 run has a REQUIRED pair of exactly these two players
HasRequiredRow(a, b) ==
    \E j \in DOMAIN rows :
        {rows[j].Anchor, rows[j].Gunner} = {a, b} /\ rows[j].constraint = "REQUIRED"

\* the output of the v1 run has the REQUIRED pair of anchor a and gunner b
HasRequiredPair(a, b) ==
    \E j \in DOMAIN all_pairs :
        /\ all_pairs[j].anchor = a /\ all_pairs[j].gunner = b
        /\ all_pairs[j].constraint = "REQUIRED"

top_names_v2 == {top_players[i].name : i \in DOMAIN top_players}

\* the output of the v2 run has a pair of exactly these two players
HasPairRow(a, b) ==
    \E j \in DOMAIN rows : {rows[j].Anchor, rows[j].Gunner} = {a, b}

\* a member of the required pairing is missing from the working pools: from
\* both of top_anchors and top_gunners in v1, from top_players in v2, from
\* selected in v3
MemberMissing(pairing) ==
    \/ script = "v1" /\ (~in_either_pool(pairing[1]) \/ ~in_either_pool(pairing[2]))
    \/ script = "v2" /\ (pairing[1] \notin top_names_v2 \/ pairing[2] \notin top_names_v2)
    \/ script = "v3" /\ (pairing[1] \notin selected_names_v3
                          \/ pairing[2] \notin selected_names_v3)

\* C3: in v3 every entry of REQUIRED_PAIRINGS whose two members are in the
\* roster with a score is output as a REQUIRED pair of exactly those two.
C3_RequiredPairOutputV3 ==
    V3Done =>
        \A i \in DOMAIN REQUIRED_PAIRINGS :
            (InRosterWithScore(REQUIRED_PAIRINGS[i][1]) /\ InRosterWithScore(REQUIRED_PAIRINGS[i][2]))
            => HasRequiredRow(REQUIRED_PAIRINGS[i][1], REQUIRED_PAIRINGS[i][2])

\* C4 as claimed: a run in which a member of a required pairing is missing
\* from the working pools ends with InfeasibleConstraintError.
C4_MissingMemberFails ==
    (pc = "done" /\ outcome # "IndexError") =>
        \A i \in DOMAIN REQUIRED_PAIRINGS :
            MemberMissing(REQUIRED_PAIRINGS[i]) => outcome = "InfeasibleConstraintError"

\* C4 as amended: a required pairing with a member missing from the working
\* pools is skipped and the run goes on.  No pair is output for it; v2 and v3
\* print a WARNING line naming a missing member, v1 prints nothing.  v3
\* completes; v1 and v2 complete unless no pair at all was made (then v1 ends
\* in the KeyError, v2 in the ZeroDivisionError of the summary).  No run ends
\* with InfeasibleConstraintError.
C4_MissingMemberSkipped ==
    (pc = "done" /\ outcome # "IndexError") =>
        /\ outcome # "InfeasibleConstraintError"
        /\ \A i \in DOMAIN REQUIRED_PAIRINGS :
             MemberMissing(REQUIRED_PAIRINGS[i]) =>
                /\ script = "v1" =>
                     /\ ~HasRequiredPair(REQUIRED_PAIRINGS[i][1], REQUIRED_PAIRINGS[i][2])
                     /\ outcome = (IF all_pairs = <<>> THEN "KeyError" ELSE "completed")
                /\ script = "v2" =>
                     /\ ~HasPairRow(REQUIRED_PAIRINGS[i][1], REQUIRED_PAIRINGS[i][2])
                     /\ \E w \in Range(warnings) :
                          w \in {REQUIRED_PAIRINGS[i][1], REQUIRED_PAIRINGS[i][2]}
                          /\ w \notin top_names_v2
                     /\ outcome = (IF rows = <<>> THEN "ZeroDivisionError" ELSE "completed")
                /\ script = "v3" =>
                     /\ ~HasRequiredRow(REQUIRED_PAIRINGS[i][1], REQUIRED_PAIRINGS[i][2])
                     /\ \E w \in Range(warnings) :
                          w \in {REQUIRED_PAIRINGS[i][1], REQUIRED_PAIRINGS[i][2]}
                          /\ w \notin selected_names_v3
                     /\ outcome = "completed"

\* a v3 run completed with a required pair and other pairs in its output
\* while another required pairing, whose members both have a score, was
\* skipped
C4_Witness ==
    /\ V3Done /\ outcome = "completed"
    /\ \E i, k \in DOMAIN REQUIRED_PAIRINGS :
         /\ MemberMissing(REQUIRED_PAIRINGS[i])
         /\ InRosterWithScore(REQUIRED_PAIRINGS[i][1])
         /\ InRosterWithScore(REQUIRED_PAIRINGS[i][2])
         /\ HasRequiredRow(REQUIRED_PAIRINGS[k][1], REQUIRED_PAIRINGS[k][2])
    /\ \E j \in DOMAIN rows : rows[j].constraint = "AUTO"

----------------------------------------------------------------------------
(* generate_pairings.py: the fallback, the outcome, the either/or          *)
(* pairings, the reserves and the order of the required players            *)

V1Assigned == script = "v1" /\ pc \in {"assigned", "done"}

\* the anchor-gunner combinations of the remaining pools that violate no
\* hard constraint
ValidCombinations ==
    {c \in Range(remaining_anchors) \X Range(remaining_gunners) : is_valid_pairing(c[1], c[2])}

\* the results of the reference heuristic: of the combinations whose two
\* players are both unpaired it takes one of the highest combined score,
\* until none is left; combinations of equal score may come in any order
RECURSIVE ReferenceOutcomes(_, _)
ReferenceOutcomes(free, chosen) ==
    LET paired == {c[1] : c \in chosen} \cup {c[2] : c \in chosen}
        avail  == {c \in free : c[1] \notin paired /\ c[2] \notin paired}
        top    == {c \in avail :
                      \A d \in avail : get_combined_score(d[1], d[2])
                                          <= get_combined_score(c[1], c[2])}
    IN  IF avail = {} THEN {chosen}
        ELSE UNION {ReferenceOutcomes(avail \ {c}, chosen \cup {c}) : c \in top}

\* the gunners the anchors before position i took in the fallback
TakenBefore(i) == {best_assignment[j][2] : j \in 1..(i - 1)}

\* C11 as claimed: when the search found nothing, the pairs of the fallback
\* are those of the reference heuristic (valid combinations, highest
\* combined score first, both players still unpaired).
C11_FallbackIsReference ==
    (V1Assigned /\ used_fallback /\ SmallPools) =>
        Range(best_assignment) \in ReferenceOutcomes(ValidCombinations, {})

\* C11 as amended: the fallback goes through the remaining anchors in pool
\* order and gives each the first gunner in pool order that no earlier anchor
\* took and that is not in the anchor's exclusion list; an anchor stays
\* unpaired only when there is no such gunner.  The handicap threshold and
\* the combined scores play no part.
C11_FallbackFirstFit ==
    (V1Assigned /\ used_fallback) =>
        /\ \A i \in DOMAIN best_assignment :
              LET a == best_assignment[i][1]
                  g == best_assignment[i][2]
              IN  /\ a \in Range(remaining_anchors) /\ g \in Range(remaining_gunners)
                  /\ g \notin excluded_for(a)
                  /\ g \notin TakenBefore(i)
                  /\ \A k \in 1..(PositionIn(remaining_gunners, g) - 1) :
                        \/ remaining_gunners[k] \in TakenBefore(i)
                        \/ remaining_gunners[k] \in excluded_for(a)
                  /\ \A j \in 1..(i - 1) :
                        PositionIn(remaining_anchors, best_assignment[j][1])
                           < PositionIn(remaining_anchors, a)
        /\ \A a \in Range(remaining_anchors) \ {best_assignment[i][1] : i \in DOMAIN best_assignment} :
              \A g \in Range(remaining_gunners) :
                  \/ g \in excluded_for(a)
                  \/ \E i \in DOMAIN best_assignment :
                        /\ best_assignment[i][2] = g
                        /\ PositionIn(remaining_anchors, best_assignment[i][1])
                             < PositionIn(remaining_anchors, a)

\* the fallback paired players that the reference heuristic would not pair
\* in any order of equal scores: a pair closer than the handicap threshold
C11_Witness ==
    /\ V1Assigned /\ used_fallback /\ SmallPools
    /\ best_assignment # <<>>
    /\ \E i \in DOMAIN best_assignment :
          ~is_valid_pairing(best_assignment[i][1], best_assignment[i][2])
    /\ ReferenceOutcomes(ValidCombinations, {}) # {{}}

\* no pair can be obtained at all: no fixed pair, and no valid combination
\* of the remaining pools (one of them may be empty)
NoPairObtainable == fixed_pairs = <<>> /\ ValidCombinations = {}

\* C12: a v1 run ends with InfeasibleConstraintError exactly when no valid
\* pair can be obtained at all; every other run completes, and no run ends
\* with another kind of failure.
C12_InfeasibleOnlyWithoutPairs ==
    (V1Done /\ SmallPools) =>
        /\ outcome \in {"completed", "InfeasibleConstraintError"}
        /\ outcome = "InfeasibleConstraintError" <=> NoPairObtainable

V1Fixed == script = "v1" /\ pc \in {"fixed", "searched", "assigned", "done"}
V2Constrained == script = "v2" /\ pc \in {"constrained", "filled", "done"}

EitherOrTag == "REQUIRED (either/or)"

\* the fixed pairs made before entry k of EITHER_OR_PAIRINGS is looked at:
\* the required pairs and the pairs of the entries before k
MadeBefore(k) ==
    {fp \in Range(fixed_pairs) :
        \/ fp[3] = "REQUIRED"
        \/ fp[3] = EitherOrTag /\ \E m \in 1..(k - 1) : fp[2] = EITHER_OR_PAIRINGS[m][2]}
UsedAnchorsBefore(k) == {fp[1] : fp \in MadeBefore(k)}
UsedGunnersBefore(k) == {fp[2] : fp \in MadeBefore(k)}

\* the partners of the fixed player of entry k in the either/or pairs
PartnersOf(k) ==
    {fp[1] : fp \in {q \in Range(fixed_pairs) :
                        q[3] = EitherOrTag /\ q[2] = EITHER_OR_PAIRINGS[k][2]}}

\* v2: the players of the required pairs, made before the Matt Maritz
\* constraint is looked at
required_names_v2 ==
    UNION {{REQUIRED_PAIRINGS[i][1], REQUIRED_PAIRINGS[i][2]} :
              i \in {j \in DOMAIN REQUIRED_PAIRINGS :
                        /\ REQUIRED_PAIRINGS[j][1] \in top_names_v2
                        /\ REQUIRED_PAIRINGS[j][2] \in top_names_v2}}

\* v2: the options of matt_options whose two players are selected and unused
available_matt_options ==
    SelectSeq(matt_options, LAMBDA o :
        /\ o[1] \in top_names_v2 /\ o[2] \in top_names_v2
        /\ o[1] \notin required_names_v2 /\ o[2] \notin required_names_v2)

top_player(name) == top_players[find_player_v2(name)]
option_score(o) == calculate_pairing_score(top_player(o[1]), top_player(o[2]))

\* v2: the pair made for the Matt Maritz constraint is the pair of option o
MattPairIs(o) ==
    \E i \in DOMAIN best_pairings :
        /\ best_pairings[i][1].name = o[1]
        /\ best_pairings[i][2].name = o[2]
        /\ best_pairings[i][3] = option_score(o)

C14_NoOptionNoPair ==
    /\ V1Searched =>
         \A k \in DOMAIN EITHER_OR_PAIRINGS :
            LET g == EITHER_OR_PAIRINGS[k][2]
                used == UsedAnchorsBefore(k) \cup UsedGunnersBefore(k)
                avail == {o \in Range(EITHER_OR_PAIRINGS[k][1]) :
                             in_either_pool(o) /\ o \notin used}
            IN  (in_either_pool(g) /\ g \notin used /\ avail = {}) =>
                   /\ PartnersOf(k) = {}
                   /\ g \in Range(remaining_anchors) \cup Range(remaining_gunners)
    /\ (/\ script = "v2" /\ pc = "constrained"
        /\ "Matt Maritz" \in top_names_v2 \ required_names_v2
        /\ available_matt_options = <<>>) =>
            /\ outcome = "running"
            /\ "Matt Maritz" \notin used_players
            /\ \A i \in DOMAIN best_pairings :
                  "Matt Maritz" \notin {best_pairings[i][1].name, best_pairings[i][2].name}

\* C19: in a completed v1 run every valid player who is in no output pair is
\* in the reserves, a player of a pool that was left unmatched included.
C19_UnpairedAreReserves ==
    (V1Done /\ outcome = "completed") =>
        \A n \in valid_names \ PairedNames : n \in Range(reserve_players)


\* the required players the loop of lines 150-163 has to append to the pools
\* that lines 60-98 select
RequiredToAdd ==
    {p \in all_required_players :
        p \in valid_names /\ ~found_in(SelectAnchors, p)
                          /\ ~found_in(SelectGunners(SelectAnchors), p)}

\* all_pairs of the run on the same input in which the set
\* all_required_players comes up in the given order (lines 150-306).  The
\* fixed pairs depend on the members of the pools only and the members do
\* not depend on the order, so the fixed pairs and the used names are those
\* of the run.
PairsForOrder(order) ==
    LET pools == AddRequiredPlayers(order, <<SelectAnchors, SelectGunners(SelectAnchors)>>)
        all_used_players == used_anchors \cup used_gunners
        ra == SelectSeq(pools[1], LAMBDA n : n \notin all_used_players)
        rg == SelectSeq(pools[2], LAMBDA n : n \notin all_used_players)
        best == PermutationSearch(ra, rg)
        assignment == IF best.found THEN best.assignment ELSE GreedyFallback(ra, rg, {})
    IN  PairList(fixed_pairs, assignment)

\* C20: the pairs of a v1 run are those of every run on the same input,
\* whatever the order in which the set all_required_players is iterated.
C20_SamePairsInEveryOrder ==
    V1Done => \A order \in Orderings(RequiredToAdd) : PairsForOrder(order) = all_pairs


----------------------------------------------------------------------------
(* generate_pairings_v2.py: the score of the selected players              *)

V2Selected == script = "v2" /\ pc \notin {"start", "loaded"}

----------------------------------------------------------------------------
(* The selection of the pool in generate_pairings_v2.py,                   *)
(* generate_pairings_v3.py and generate_pairings_v4.py                     *)

\* the selection has been made
PoolSelected == script \in {"v2", "v3", "v4"} /\ pc \notin {"start", "loaded"}

\* the selected players: top_players in v2, selected in v3 and v4
pool_names ==
    IF script = "v2" THEN top_names_v2 ELSE {selected[i].name : i \in DOMAIN selected}

\* the players the selection draws from: the valid players in v2, the
\* players with data that are not on the bench in v3 and v4
eligible_players ==
    IF script = "v2" THEN Range(valid_players)
    ELSE {p \in Range(all_players) : p.name \notin BENCH_PLAYERS}

eligible_of(commitment) == {p \in eligible_players : p.commitment = commitment}

\* the key the tiers are sorted by: player_strength in v2, the score in v3
\* and v4
strength_of(p) == IF script = "v2" THEN player_strength(p) ELSE p.cvs

all_selected(players) == \A p \in players : p.name \in pool_names
some_selected(players) == \E p \in players : p.name \in pool_names

C15_WitnessAllFull ==
    /\ PoolSelected
    /\ Cardinality(eligible_of("Full")) > (IF script = "v2" THEN TOP_PLAYERS_N ELSE SELECT_N)


----------------------------------------------------------------------------
(* The locations and the number of pairs in generate_pairings_v3.py and    *)
(* generate_pairings_v4.py                                                 *)

\* the run of v3 or v4 has written its rows; rows[i] is the row of pairings[i]
LocationsDone == script \in {"v3", "v4"} /\ pc = "done" /\ outcome = "completed"

\* C17: a pair of v3 or v4 is labelled HOME only if both of its members can
\* play HOME.
C17_HomeOnlyIfEligible ==
    LocationsDone =>
        \A i \in DOMAIN rows :
            rows[i].Location = "HOME"
                => pairings[i].anchor.can_play_home /\ pairings[i].gunner.can_play_home


V4Done == script = "v4" /\ pc = "done"

\* the rows of the output with that location
rows_at(location) == {i \in DOMAIN rows : rows[i].Location = location}

\* C18: the output of v4 has at most 4 HOME pairs and at most 4 AWAY pairs,
\* at most 8 pairs in all, from at most 16 selected players.
C18_AtMostEightPairs ==
    V4Done =>
        /\ Cardinality(rows_at("HOME")) <= HOME_N
        /\ Cardinality(rows_at("AWAY")) <= PAIRS_N - HOME_N
        /\ Len(rows) <= PAIRS_N
        /\ Len(selected) <= SELECT_N


----------------------------------------------------------------------------
(* generate_pairings_v2.py: the pairs that fill the list                   *)

\* the list has been filled and is not yet sorted for the output
V2Filled == script = "v2" /\ pc = "filled"

\* how many pairs the fixed pairings have made: one for every required
\* pairing without a WARNING line, one for the Matt Maritz constraint unless
\* its warning was printed
fixed_count ==
    Cardinality({i \in DOMAIN REQUIRED_PAIRINGS : TRUE})
    - Cardinality({i \in DOMAIN warnings : warnings[i] # "Matt Maritz constraint"})
    + (IF \E i \in DOMAIN warnings : warnings[i] = "Matt Maritz constraint" THEN 0 ELSE 1)

\* the arguments and the two candidate solutions of the call of line 437,
\* and the pairs it returned
pairs_needed == PAIRS_NEEDED - fixed_count
available_pairs == PossiblePairs(NamesIn(Take(best_pairings, fixed_count)))
balanced_solution == greedy_balanced(pairs_needed, <<>>, available_pairs)
greedy_solution == pure_greedy(pairs_needed, <<>>, available_pairs)
balanced_pairs == SubSeq(best_pairings, fixed_count + 1, Len(best_pairings))

\* the lowest score of a non-empty solution, in thousandths
min_score(sol) == MinOf([i \in DOMAIN sol |-> sol[i][3]])

\* the variance of the scores of a non-empty solution, multiplied by the
\* square of their number; the scores are counted from the first of them,
\* which leaves the variance as it is and keeps the sums small
variance(sol) ==
    LET scores == [i \in DOMAIN sol |-> sol[i][3]]
    IN  Len(scores) * SumSquaresOver(scores, scores[1])
        - SumOver(scores, scores[1]) * SumOver(scores, scores[1])

BothComplete ==
    /\ V2Filled
    /\ Len(balanced_solution) = pairs_needed
    /\ Len(greedy_solution) = pairs_needed

\* C21: with both solutions complete, the one of the higher minimum score is
\* returned and, on equal minimum scores, the one of the lower variance.
C21_HigherMinimumThenVariance ==
    BothComplete =>
        /\ min_score(balanced_solution) > min_score(greedy_solution)
              => balanced_pairs = balanced_solution
        /\ min_score(greedy_solution) > min_score(balanced_solution)
              => balanced_pairs = greedy_solution
        /\ (/\ min_score(greedy_solution) = min_score(balanced_solution)
            /\ variance(balanced_solution) < variance(greedy_solution))
              => balanced_pairs = balanced_solution
        /\ (/\ min_score(greedy_solution) = min_score(balanced_solution)
            /\ variance(greedy_solution) < variance(balanced_solution))
              => balanced_pairs = greedy_solution


\* the 0.5 of lines 428 and 430, in thousandths
MIN_TOLERANCE == 500

\* C21 as lines 426-435 have it: with both solutions complete, a solution
\* whose minimum score is more than 0.5 above the other's is returned;
\* otherwise the balanced solution is returned if its variance is lower and
\* the greedy solution if not.
C21_HigherMinimumBeyondHalfPoint ==
    BothComplete =>
        LET bal_min == min_score(balanced_solution)
            greedy_min == min_score(greedy_solution)
        IN  /\ bal_min > greedy_min + MIN_TOLERANCE => balanced_pairs = balanced_solution
            /\ greedy_min > bal_min + MIN_TOLERANCE => balanced_pairs = greedy_solution
            /\ (/\ bal_min <= greedy_min + MIN_TOLERANCE
                /\ greedy_min <= bal_min + MIN_TOLERANCE)
                  => balanced_pairs = IF variance(balanced_solution) < variance(greedy_solution)
                                      THEN balanced_solution
                                      ELSE greedy_solution

\* the solution of the lower minimum score is returned: the minimum scores
\* are less than 0.5 apart and its variance is lower
C21_Witness ==
    /\ BothComplete
    /\ min_score(greedy_solution) > min_score(balanced_solution)
    /\ balanced_pairs = balanced_solution
    /\ balanced_solution # greedy_solution


\* the pairs of the v2 run are complete
V2Paired == script = "v2" /\ pc \in {"filled", "done"}

\* in how many of the pairs of best_pairings the player is
pair_count(name) ==
    Cardinality({i \in DOMAIN best_pairings :
                    name \in {best_pairings[i][1].name, best_pairings[i][2].name}})

\* C22: no player is in more than one of the final pairs of v2, and no pair
\* joins a player with himself; the rows of the output name every player at
\* most once.
C22_PairsDisjoint ==
    V2Paired =>
        /\ \A i \in DOMAIN top_players : pair_count(top_players[i].name) <= 1
        /\ \A i \in DOMAIN best_pairings : best_pairings[i][1].name # best_pairings[i][2].name
        /\ \A i, j \in DOMAIN rows :
              i # j => {rows[i].Anchor, rows[i].Gunner} \cap {rows[j].Anchor, rows[j].Gunner} = {}

\* the output has the required pair, a pair of the Matt Maritz constraint
\* and pairs of find_balanced_pairings
C22_Witness ==
    /\ script = "v2" /\ pc = "done" /\ outcome = "completed"
    /\ HasPairRow("Greg Park", "Hugo Lamprecht")
    /\ \E j \in DOMAIN rows : "Matt Maritz" \in {rows[j].Anchor, rows[j].Gunner}
    /\ Len(rows) > fixed_count
    /\ fixed_count = 2


V2Done == script = "v2" /\ pc = "done"

\* the rows of the v2 output with that status
rows_with(status) == {i \in DOMAIN rows : rows[i].Status = status}

----------------------------------------------------------------------------
(* generate_pairings_v3.py and generate_pairings_v4.py: the bench, the     *)
(* AUTO pairs and the pairs of the anchors                                 *)

\* the names in the rows of the v3 output (Gunner) or the v4 output (Partner)
row_names ==
    IF script = "v4"
    THEN {rows[i].Anchor : i \in DOMAIN rows} \cup {rows[i].Partner : i \in DOMAIN rows}
    ELSE {rows[i].Anchor : i \in DOMAIN rows} \cup {rows[i].Gunner : i \in DOMAIN rows}

\* C24: in v3 and v4 a bench player is in no pair and in no row of the
\* output, and a bench player of the commitment list with a score is among
\* the reserves of a completed run.
C24_BenchOnlyInReserves ==
    (script \in {"v3", "v4"}) =>
        \A b \in BENCH_PLAYERS :
            /\ b \notin row_names
            /\ \A i \in DOMAIN pairings : b \notin {pairings[i].anchor.name, pairings[i].gunner.name}
            /\ (LocationsDone /\ InRosterWithScore(b))
                  => \E i \in DOMAIN reserves : reserves[i].name = b

\* a scored bench player named in a required pairing is among the reserves
\* of a run that has made pairs
C24_Witness ==
    /\ LocationsDone /\ rows # <<>>
    /\ \E b \in BENCH_PLAYERS :
          /\ InRosterWithScore(b)
          /\ \E i \in DOMAIN REQUIRED_PAIRINGS : b \in Range(REQUIRED_PAIRINGS[i])
          /\ \E i \in DOMAIN reserves : reserves[i].name = b


\* the pairs of the v3 run are made and not yet ordered for the locations
V3Filled == script = "v3" /\ pc = "filled"

\* the players left after the required pairings, by handicap index, and the
\* names of the lower half of them
remaining_by_hi == SortByHi(SelectSeq(selected, LAMBDA p : p.name \notin used_players))
lower_half == {remaining_by_hi[i].name : i \in 1..(Len(remaining_by_hi) \div 2)}
upper_half == {remaining_by_hi[i].name : i \in DOMAIN remaining_by_hi} \ lower_half

\* the AUTO pairs in the order they were made
auto_pairs == SelectSeq(pairings, LAMBDA p : p.constraint = "AUTO")

\* the list holds exactly the players of the set, best score first
BestFirst(list, names) ==
    /\ {list[i].name : i \in DOMAIN list} = names
    /\ Len(list) = Cardinality(names)
    /\ \A i, j \in DOMAIN list : i < j => list[i].cvs >= list[j].cvs

----------------------------------------------------------------------------
(* generate_pairings.py: the search between pools of the same size         *)

EqualPools == Len(remaining_anchors) = Len(remaining_gunners)

V4Filled == script = "v4" /\ pc = "filled"

\* the pairs of the list before the pair at position i
partners_before(i) == {pairings[j].gunner.name : j \in 1..(i - 1)}

----------------------------------------------------------------------------
(* generate_pairing_ui.py: the pairing builder                             *)
(*                                                                         *)
(* The script writes outputs/pairing_builder.html; the state below is that *)
(* of the page's script (lines 747-1230).  A player is the object of       *)
(* get_player_data (lines 56-84) with the fields the handlers read: name,  *)
(* hi and cvs.  A drag and its drop are one step: dragstart only stores    *)
(* the card or the slot (lines 893-897 and 962-967).  Indexes count from 1.*)
(* pc names the handler that ran last and the branch it left by.           *)

\* null in a role of a slot
null == [name |-> "null", hi |-> 0, cvs |-> 0]

\* { anchor: null, gunner: null }
EmptySlot == [anchor |-> null, gunner |-> null]

\* Object.keys(sections), in the order of lines 753-758
SectionKeys == <<"home", "away", "homeReserve", "awayReserve",
                 "generalReserve1", "generalReserve2">>
PlayingSections == {"home", "away"}
Roles == <<"anchor", "gunner">>

\* Array(4) of lines 753-754
PLAYING_SLOTS == 4

\* the sections as lines 752-759 and 1119-1126 build them
InitialSections ==
    [sec \in Range(SectionKeys) |->
        IF sec \in PlayingSections
        THEN [i \in 1..PLAYING_SLOTS |-> EmptySlot]
        ELSE <<EmptySlot>>]

\* pair.anchor && pair.gunner
IsComplete(pair) == pair.anchor # null /\ pair.gunner # null

\* targetSlots.findIndex(p => !p.anchor && !p.gunner), 0 for -1
FindEmptyIndex(targetSlots) ==
    LET empty == {i \in DOMAIN targetSlots : targetSlots[i] = EmptySlot}
    IN  IF empty = {} THEN 0 ELSE CHOOSE i \in empty : \A j \in empty : i <= j

\* the slots of every section, in the order of Object.keys and of the array
AllSlots(secs) ==
    LET at(sec) == [i \in DOMAIN secs[sec] |-> <<sec, i>>]
    IN  at("home") \o at("away") \o at("homeReserve") \o at("awayReserve")
        \o at("generalReserve1") \o at("generalReserve2")

\* movePairToSection adding a slot to a target without an empty slot: the
\* faulty variant the capacities are tested against
movePairToSection_Append(secs, fromSection, fromIndex, toSection) ==
    LET pair == secs[fromSection][fromIndex]
        emptyIndex == FindEmptyIndex(secs[toSection])
        cleared == [secs EXCEPT ![fromSection][fromIndex] = EmptySlot]
    IN  IF ~IsComplete(pair) THEN secs
        ELSE IF emptyIndex = 0
             THEN [cleared EXCEPT ![toSection] = Append(cleared[toSection], pair)]
             ELSE [cleared EXCEPT ![toSection][emptyIndex] = pair]

\* movePairToSection writing over the first slot of a target without an empty
\* slot: the faulty variant the swap is tested against
movePairToSection_Overwrite(secs, fromSection, fromIndex, toSection) ==
    LET pair == secs[fromSection][fromIndex]
        emptyIndex == FindEmptyIndex(secs[toSection])
        cleared == [secs EXCEPT ![fromSection][fromIndex] = EmptySlot]
    IN  IF ~IsComplete(pair) THEN secs
        ELSE [cleared EXCEPT ![toSection][IF emptyIndex = 0 THEN 1 ELSE emptyIndex] = pair]

\* movePairToSection (lines 810-835) on the sections: the sections after it
movePairToSection(secs, fromSection, fromIndex, toSection) ==
    LET pair == secs[fromSection][fromIndex]
        emptyIndex == FindEmptyIndex(secs[toSection])
    IN  IF ~IsComplete(pair) THEN secs
        ELSE IF emptyIndex = 0
             THEN LET swapPair == secs[toSection][1]
                      moved == [secs EXCEPT ![fromSection][fromIndex] = swapPair]
                  IN  [moved EXCEPT ![toSection][1] = pair]
             ELSE LET cleared == [secs EXCEPT ![fromSection][fromIndex] = EmptySlot]
                  IN  [cleared EXCEPT ![toSection][emptyIndex] = pair]

\* the branch movePairToSection leaves by (lines 812, 819-825, 826-828)
MoveBranch(secs, fromSection, fromIndex, toSection) ==
    IF ~IsComplete(secs[fromSection][fromIndex]) THEN "movePairToSection: returned"
    ELSE IF FindEmptyIndex(secs[toSection]) = 0 THEN "movePairToSection: swapped"
         ELSE "movePairToSection: moved"

\* addPlayerToPair keeping the player the role had out of the pool: the
\* faulty variant the places of the players are tested against
addPlayerToPair_DropPrevious(pool, secs, player, section, index, role) ==
    [pool |-> SelectSeq(pool, LAMBDA p : p.name # player.name),
     sections |-> [secs EXCEPT ![section][index][role] = player]]

\* addPlayerToPair (lines 1030-1047): [pool, sections] after it
addPlayerToPair(pool, secs, player, section, index, role) ==
    LET filtered == SelectSeq(pool, LAMBDA p : p.name # player.name)
        previous == secs[section][index][role]
    IN  [pool |-> IF previous # null
                  THEN SortByCvsDesc(Append(filtered, previous))
                  ELSE filtered,
         sections |-> [secs EXCEPT ![section][index][role] = player]]

\* removeFromPair (lines 1050-1061): [pool, sections] after it
removeFromPair(pool, secs, section, index, role) ==
    LET player == secs[section][index][role]
    IN  IF player # null
        THEN [pool |-> SortByCvsDesc(Append(pool, player)),
              sections |-> [secs EXCEPT ![section][index][role] = null]]
        ELSE [pool |-> pool, sections |-> secs]

\* the players of the slots as clearAll pushes them (lines 1110-1115)
RECURSIVE PlayersInSlots(_, _)
PlayersInSlots(secs, slots) ==
    IF slots = <<>> THEN <<>>
    ELSE LET pair == secs[Head(slots)[1]][Head(slots)[2]]
         IN  (IF pair.anchor # null THEN <<pair.anchor>> ELSE <<>>)
             \o (IF pair.gunner # null THEN <<pair.gunner>> ELSE <<>>)
             \o PlayersInSlots(secs, Tail(slots))

\* clearAll (lines 1109-1131): [pool, sections] after it
clearAll(pool, secs) ==
    [pool |-> SortByCvsDesc(pool \o PlayersInSlots(secs, AllSlots(secs))),
     sections |-> InitialSections]

\* the loops of autoFill over the slots (lines 1143-1168); st is [pool,
\* sections, anchors, gunners]
RECURSIVE FillSlots(_, _)
FillSlots(st, slots) ==
    IF slots = <<>> THEN st
    ELSE LET sec == Head(slots)[1]
             i == Head(slots)[2]
             pair == st.sections[sec][i]
             a == IF pair.anchor = null /\ st.anchors # <<>>
                  THEN [st EXCEPT !.sections[sec][i].anchor = Head(st.anchors),
                                  !.anchors = Tail(st.anchors),
                                  !.pool = SelectSeq(st.pool,
                                      LAMBDA p : p.name # Head(st.anchors).name)]
                  ELSE st
             g == IF pair.gunner = null /\ a.gunners # <<>>
                  THEN [a EXCEPT !.sections[sec][i].gunner = Head(a.gunners),
                                 !.gunners = Tail(a.gunners),
                                 !.pool = SelectSeq(a.pool,
                                     LAMBDA p : p.name # Head(a.gunners).name)]
                  ELSE a
         IN  FillSlots(g, Tail(slots))

\* autoFill (lines 1134-1173): [pool, sections] after it
autoFill(pool, secs) ==
    LET sorted == SortByHi(pool)
        mid == Len(sorted) \div 2
        st == FillSlots([pool |-> pool, sections |-> secs,
                         anchors |-> SortByCvsDesc(SubSeq(sorted, 1, mid)),
                         gunners |-> SortByCvsDesc(SubSeq(sorted, mid + 1, Len(sorted)))],
                        AllSlots(secs))
    IN  [pool |-> st.pool, sections |-> st.sections]

\* a player card of the pool is dropped on a role of a slot (lines 976-989)
UIAddPlayerToPair ==
    /\ script = "ui"
    /\ \E k \in DOMAIN availablePlayers, sec \in Range(SectionKeys), role \in Range(Roles) :
          \E index \in DOMAIN sections[sec] :
             LET st == addPlayerToPair(availablePlayers, sections, availablePlayers[k],
                                       sec, index, role)
             IN  /\ availablePlayers' = st.pool
                 /\ sections' = st.sections
    /\ pc' = "addPlayerToPair"
    /\ UNCHANGED <<varsV1, varsV2, varsV3, varsV4, script, outcome, allPlayers>>

\* the remove button of a player of a slot is clicked (line 1013)
UIRemoveFromPair ==
    /\ script = "ui"
    /\ \E sec \in Range(SectionKeys), role \in Range(Roles) :
          \E index \in DOMAIN sections[sec] :
             LET st == removeFromPair(availablePlayers, sections, sec, index, role)
             IN  /\ sections[sec][index][role] # null
                 /\ availablePlayers' = st.pool
                 /\ sections' = st.sections
    /\ pc' = "removeFromPair"
    /\ UNCHANGED <<varsV1, varsV2, varsV3, varsV4, script, outcome, allPlayers>>

\* movePairToSection is called for a slot and a section (lines 796-803)
MovePair(fromSection, fromIndex, toSection) ==
    /\ script = "ui"
    /\ sections' = movePairToSection(sections, fromSection, fromIndex, toSection)
    /\ pc' = MoveBranch(sections, fromSection, fromIndex, toSection)
    /\ UNCHANGED <<varsV1, varsV2, varsV3, varsV4, script, outcome, allPlayers,
                   availablePlayers>>

UIMovePairToSection ==
    \E fromSection \in Range(SectionKeys), toSection \in Range(SectionKeys) :
       \E fromIndex \in DOMAIN sections[fromSection] :
          MovePair(fromSection, fromIndex, toSection)

\* the Clear All button (line 664)
UIClearAll ==
    /\ script = "ui"
    /\ LET st == clearAll(availablePlayers, sections)
       IN  /\ availablePlayers' = st.pool
           /\ sections' = st.sections
    /\ pc' = "clearAll"
    /\ UNCHANGED <<varsV1, varsV2, varsV3, varsV4, script, outcome, allPlayers>>

\* the Auto-Fill button (line 665)
UIAutoFill ==
    /\ script = "ui"
    /\ LET st == autoFill(availablePlayers, sections)
       IN  /\ availablePlayers' = st.pool
           /\ sections' = st.sections
    /\ pc' = "autoFill"
    /\ UNCHANGED <<varsV1, varsV2, varsV3, varsV4, script, outcome, allPlayers>>

NextUI ==
    \/ UIAddPlayerToPair
    \/ UIRemoveFromPair
    \/ UIMovePairToSection
    \/ UIClearAll
    \/ UIAutoFill

\* Rosters of the page: three players with a Combined Value Score, by
\* handicap index and score all different, or with equal handicap indexes
\* and two equal scores.
UINames == <<"Greg Park", "Hugo Lamprecht", "Ian Scott">>
UIRoster(hi, cvs) == [i \in DOMAIN UINames |-> [name |-> UINames[i], hi |-> hi[i], cvs |-> cvs[i]]]
UIRosters == {UIRoster(<<20, 5, 15>>, <<7, 9, 8>>), UIRoster(<<15, 15, 15>>, <<8, 8, 0>>)}

\* lines 93-100 and 748-759: the players sorted by score, all of them in the
\* pool, every slot empty
InitUI ==
    /\ script = "ui" /\ pc = "init" /\ outcome = "running"
    /\ \E roster \in UIRosters : allPlayers = SortByCvsDesc(roster)
    /\ availablePlayers = allPlayers
    /\ sections = InitialSections
    /\ df = <<>> /\ commitment_map = <<>> /\ hi_map = NoChData
    /\ REQUIRED_PAIRINGS = <<>> /\ BENCH_PLAYERS = {} /\ AWAY_ONLY_PLAYERS = {}
    /\ ch_lookup = NoChData /\ EITHER_OR_PAIRINGS = <<>>
    /\ EXCLUSIONS = NoExclusions /\ MIN_CH_DIFF = 0
    /\ IdleV1
    /\ IdleV2
    /\ IdleV3
    /\ IdleV4

SpecUI == InitUI /\ [][NextUI]_vars

----------------------------------------------------------------------------
(* generate_pairing_ui.py: properties                                      *)

UIOpen == script = "ui"

\* the names of the players in the slots of the sections
placed_names ==
    {sections[x[1]][x[2]][x[3]].name :
        x \in {y \in Range(SectionKeys) \X (1..PLAYING_SLOTS) \X Range(Roles) :
                  y[2] \in DOMAIN sections[y[1]]}}
    \ {"null"}

\* C25: whatever the handlers did, the sections home and away have exactly
\* four slots and each of the four reserve sections has exactly one; every
\* slot has an anchor and a gunner role.
C25_FixedCapacities ==
    UIOpen =>
        /\ DOMAIN sections = Range(SectionKeys)
        /\ \A sec \in Range(SectionKeys) :
              /\ DOMAIN sections[sec] = 1..(IF sec \in PlayingSections THEN 4 ELSE 1)
              /\ \A i \in DOMAIN sections[sec] :
                    DOMAIN sections[sec][i] = Range(Roles)

\* a pair was moved to a section that had no empty slot, and players are in
\* slots of a playing and of a reserve section
C25_Witness ==
    /\ UIOpen /\ pc = "movePairToSection: swapped"
    /\ \E i \in DOMAIN sections["home"] : sections["home"][i] # EmptySlot
    /\ \E sec \in Range(SectionKeys) \ PlayingSections : IsComplete(sections[sec][1])

\* how often the player is in the pool and in the slots
places_of(name) ==
    Cardinality({k \in DOMAIN availablePlayers : availablePlayers[k].name = name})
    + Cardinality({x \in Range(SectionKeys) \X (1..PLAYING_SLOTS) \X Range(Roles) :
                      /\ x[2] \in DOMAIN sections[x[1]]
                      /\ sections[x[1]][x[2]][x[3]].name = name})

\* C28: whatever the handlers did, every player of allPlayers is in exactly
\* one place: once in the pool, or in one role of one slot.
C28_EveryPlayerInOnePlace ==
    UIOpen => \A k \in DOMAIN allPlayers : places_of(allPlayers[k].name) = 1

\* Auto-Fill ran after a card had been dropped on a reserve slot: the pool
\* is empty and players are in a reserve and in a playing section
C28_Witness ==
    /\ UIOpen /\ pc = "autoFill"
    /\ availablePlayers = <<>>
    /\ \E sec \in Range(SectionKeys) \ PlayingSections : sections[sec][1] # EmptySlot
    /\ IsComplete(sections["home"][1])

\* no slot of the section is without both players
NoEmptySlot(sec) == \A j \in DOMAIN sections[sec] : sections[sec][j] # EmptySlot

\* the values of pc after movePairToSection
MoveBranches ==
    {"movePairToSection: returned", "movePairToSection: moved", "movePairToSection: swapped"}

\* the step is movePairToSection called for the slot and the section
IsMove(fromSection, fromIndex, toSection) ==
    /\ pc' = MoveBranch(sections, fromSection, fromIndex, toSection)
    /\ sections' = movePairToSection(sections, fromSection, fromIndex, toSection)

=============================================================================
